---- MODULE Spec2Model ----
(***************************************************************************)
(* Route matcher of evanjt/velox (src/rust/route-matcher/src/lib.rs):      *)
(* compare_routes (symmetric Average Minimum Distance), the strict         *)
(* grouping predicate and the union-find groupers (sequential, parallel,   *)
(* incremental).                                                           *)
(*                                                                         *)
(* Geometry.  Every GPS point lies on one meridian and is named by its     *)
(* distance in metres from a reference point, so that haversine_distance   *)
(* of two points is exactly the absolute difference of their coordinates.  *)
(* f64 values are exact rationals: a resampled coordinate is kept as its   *)
(* numerator over the common denominator resample_count - 1, an AMD and a  *)
(* percentage as a pair <<numerator, denominator>>.  A quotient 0/0 is     *)
(* NaN, for which every comparison is false.                               *)
(***************************************************************************)
EXTENDS Integers, Sequences, FiniteSets, Bags, TLC

VARIABLES
    mode,        \* which part of the library this run exercises
    config,      \* MatchConfig
    sig1, sig2,  \* the two signatures handed to compare_routes
    res12, res21,\* compare_routes(sig1, sig2) and compare_routes(sig2, sig1)
    signatures,  \* the signatures handed to the groupers, by activity id
    existing,    \* the ids of existing_signatures; the other ids are new
    new_signatures, \* regrouping: the new signatures handed to group_incremental
    run,         \* the grouper call in progress
    pc,          \* the position inside that call
    work,        \* the ids the call iterates over, in slice order
    cur,         \* index into work of the outer loop of group_signatures
    parent,      \* the union-find map of the call
    matches,     \* the collected (id, id) merges still to be applied
    groups,      \* the groups returned by each finished call
    \* section detector (sections.rs)
    tracks,          \* the full GPS tracks, by activity id
    section_config,  \* SectionConfig
    stage,           \* the stage detect_sections_from_tracks has reached
    overlaps,        \* the pairwise FullTrackOverlaps found
    clusters,        \* the significant OverlapClusters
    medoids,         \* process_cluster: the medoid selected for each cluster
    cluster_traces,  \* process_cluster: the activity traces of each cluster
    sections,        \* the FrequentSections after the stage
    \* heatmap (heatmap.rs)
    heat_sigs,       \* the signatures handed to generate_heatmap
    heat_bounds,     \* HeatmapConfig.bounds: the clip bounds or none
    grid,            \* the HeatmapGrid under construction
    heat_pos,        \* the next (signature, point) generate_heatmap ingests
    ingested,        \* history: the points ingested, each with its cell
    heatmap,         \* the HeatmapResult, once built
    cell_query,      \* the last call of query_heatmap_cell and its result
    \* activity fetcher (http.rs)
    now,             \* the clock, in milliseconds
    next_dispatch,   \* DispatchRateLimiter.next_dispatch
    consecutive_429s,\* DispatchRateLimiter.consecutive_429s
    dispatched_count,\* DispatchRateLimiter.dispatched_count
    lock,            \* the caller that holds the next_dispatch mutex, or 0
    callers,         \* the concurrent calls of wait_for_dispatch_slot
    tasks,           \* the per-activity futures of fetch_activity_maps
    starts,          \* history: the times at which requests were sent
    results          \* the ActivityMapResults collected

----------------------------------------------------------------------------
(* Bounds of the model *)

GridStep == 50   \* metres between neighbouring coordinates of the inputs
MaxCoord == 4    \* input coordinates are GridStep * (0 .. MaxCoord)
NumSigs == 3     \* signatures handed to the groupers

(* Program constants *)

PerfectThreshold == 30
ZeroThreshold == 250
MinMatchPercentage == 65
MinRouteDistance == 500
MaxDistanceDiffPercent == 20
EndpointThreshold == 200
MinDirectionDiff == 100
PartialBelow == 70
Tolerance == 1112   \* 0.01 degrees of latitude, in metres

----------------------------------------------------------------------------
(* Helpers *)

Abs(x) == IF x < 0 THEN 0 - x ELSE x
Min2(a, b) == IF a < b THEN a ELSE b
Max2(a, b) == IF a > b THEN a ELSE b
Rev(s) == [i \in 1..Len(s) |-> s[Len(s) + 1 - i]]

RECURSIVE GCD(_, _)
GCD(a, b) == IF b = 0 THEN a ELSE GCD(b, a % b)

\* rationals <<n, d>> with n >= 0 and d > 0, in lowest terms
Rat(n, d) == LET g == GCD(n, d) IN <<n \div g, d \div g>>
RatLess(a, b) == a[1] * b[2] < b[1] * a[2]
RatOfInt(n) == <<n, 1>>

Unset == [called |-> FALSE]

----------------------------------------------------------------------------
(* Geo primitives *)

haversine_distance(p1, p2) == Abs(p1 - p2)

RECURSIVE calculate_route_distance(_)
calculate_route_distance(points) ==
    IF Len(points) < 2 THEN 0
    ELSE haversine_distance(points[1], points[2])
            + calculate_route_distance(Tail(points))

SeqMin(s) == CHOOSE m \in {s[i] : i \in 1..Len(s)} : \A j \in 1..Len(s) : m <= s[j]
SeqMax(s) == CHOOSE m \in {s[i] : i \in 1..Len(s)} : \A j \in 1..Len(s) : m >= s[j]

\* RouteSignature::from_points once the points are simplified: the derived
\* fields of a signature.
MakeSignature(id, pts) ==
    [ activity_id    |-> id,
      points         |-> pts,
      total_distance |-> calculate_route_distance(pts),
      start_point    |-> pts[1],
      end_point      |-> pts[Len(pts)],
      bounds         |-> [min_lat |-> SeqMin(pts), max_lat |-> SeqMax(pts)] ]

----------------------------------------------------------------------------
(* resample_route: the result is the sequence of numerators over the      *)
(* denominator n - 1 (n = target_count >= 2).                             *)

RECURSIVE ResampleSegment(_, _, _, _, _, _)
ResampleSegment(prev, curr, n, total, acc, out) ==
    LET seg == haversine_distance(prev, curr)
        \* next_threshold = Len(out) * step_dist = Len(out) * total / (n - 1)
        thr == Len(out) * total
    IN  IF (acc + seg) * (n - 1) >= thr /\ Len(out) < n - 1
        THEN LET off == thr - acc * (n - 1)
                 \* ratio = (next_threshold - accumulated) / seg_dist
                 new == prev * (n - 1) + (off * (curr - prev)) \div seg
             IN  ResampleSegment(prev, curr, n, total, acc, Append(out, new))
        ELSE out

RECURSIVE ResampleWalk(_, _, _, _, _, _)
ResampleWalk(points, i, n, total, acc, out) ==
    IF i > Len(points) THEN out
    ELSE LET prev == points[i - 1]
             curr == points[i]
         IN  ResampleWalk(points, i + 1, n, total,
                          acc + haversine_distance(prev, curr),
                          ResampleSegment(prev, curr, n, total, acc, out))

Scaled(points, n) == [i \in 1..Len(points) |-> points[i] * (n - 1)]

resample_route(points, n) ==
    IF Len(points) < 2 THEN Scaled(points, n)
    ELSE IF Len(points) = n THEN Scaled(points, n)
    ELSE LET total == calculate_route_distance(points)
         IN  IF total = 0
             THEN Scaled(SubSeq(points, 1, Min2(n, Len(points))), n)
             ELSE LET out == ResampleWalk(points, 2, n, total, 0,
                                          <<points[1] * (n - 1)>>)
                  IN  IF Len(out) < n
                      THEN Append(out, points[Len(points)] * (n - 1))
                      ELSE out

----------------------------------------------------------------------------
(* average_min_distance: <<sum of the minimum distances, number of points>>,
   both routes being non-empty here (a signature has at least 2 points). *)

MinDistTo(p, route) ==
    LET ds == {haversine_distance(p, route[j]) : j \in 1..Len(route)}
    IN  CHOOSE d \in ds : \A e \in ds : d <= e

RECURSIVE SumMinDist(_, _, _)
SumMinDist(route1, route2, i) ==
    IF i > Len(route1) THEN 0
    ELSE MinDistTo(route1[i], route2) + SumMinDist(route1, route2, i + 1)

average_min_distance(route1, route2) ==
    <<SumMinDist(route1, route2, 1), Len(route1)>>

\* amd_to_percentage, amd = <<n, d>> in metres
amd_to_percentage(amd, perfect_threshold, zero_threshold) ==
    IF ~RatLess(RatOfInt(perfect_threshold), amd) THEN RatOfInt(100)
    ELSE IF ~RatLess(amd, RatOfInt(zero_threshold)) THEN RatOfInt(0)
    ELSE \* 100 * (1 - (amd - perfect) / (zero - perfect))
         Rat(100 * ((zero_threshold - perfect_threshold) * amd[2]
                     - (amd[1] - perfect_threshold * amd[2])),
             (zero_threshold - perfect_threshold) * amd[2])

IsLoop(sig, threshold) ==
    haversine_distance(sig.start_point, sig.end_point) < threshold

\* mutant: only the first route is tested for being a loop
direction_first_loop_only(s1, s2, loop_threshold) ==
    IF IsLoop(s1, loop_threshold) THEN "same"
    ELSE LET same_score == haversine_distance(s2.start_point, s1.start_point)
                             + haversine_distance(s2.end_point, s1.end_point)
             reverse_score == haversine_distance(s2.start_point, s1.end_point)
                                + haversine_distance(s2.end_point, s1.start_point)
         IN  IF reverse_score < same_score - MinDirectionDiff
             THEN "reverse" ELSE "same"

\* mutant: the two endpoint scores exchanged
direction_scores_exchanged(s1, s2, loop_threshold) ==
    IF IsLoop(s1, loop_threshold) /\ IsLoop(s2, loop_threshold) THEN "same"
    ELSE LET same_score == haversine_distance(s2.start_point, s1.end_point)
                             + haversine_distance(s2.end_point, s1.start_point)
             reverse_score == haversine_distance(s2.start_point, s1.start_point)
                                + haversine_distance(s2.end_point, s1.end_point)
         IN  IF reverse_score < same_score - MinDirectionDiff
             THEN "reverse" ELSE "same"

\* mutant: no shortcut for two loops
direction_no_loop_shortcut(s1, s2, loop_threshold) ==
    LET same_score == haversine_distance(s2.start_point, s1.start_point)
                        + haversine_distance(s2.end_point, s1.end_point)
        reverse_score == haversine_distance(s2.start_point, s1.end_point)
                           + haversine_distance(s2.end_point, s1.start_point)
    IN  IF reverse_score < same_score - MinDirectionDiff
        THEN "reverse" ELSE "same"

determine_direction_by_endpoints(s1, s2, loop_threshold) ==
    IF IsLoop(s1, loop_threshold) /\ IsLoop(s2, loop_threshold) THEN "same"
    ELSE LET same_score == haversine_distance(s2.start_point, s1.start_point)
                             + haversine_distance(s2.end_point, s1.end_point)
             reverse_score == haversine_distance(s2.start_point, s1.end_point)
                                + haversine_distance(s2.end_point, s1.start_point)
         IN  IF reverse_score < same_score - MinDirectionDiff
             THEN "reverse" ELSE "same"

\* a / b < 1/2 in f64, for a, b >= 0: false when the quotient is NaN (0/0),
\* true when it is 0 or a proper ratio below one half; a / 0 with a > 0 is
\* +infinity.
\* mutant: a ratio of exactly one half is rejected
QuotientAtMostHalf(a, b) == IF b = 0 THEN FALSE ELSE 2 * a <= b

\* mutant: the undefined quotient 0/0 is rejected
QuotientBelowHalfOrNaN(a, b) == IF b = 0 THEN TRUE ELSE 2 * a < b

QuotientBelowHalf(a, b) == IF b = 0 THEN FALSE ELSE 2 * a < b

NoMatch == [called |-> TRUE, matched |-> FALSE]

compare_routes(s1, s2, cfg) ==
    LET below == IF s1.total_distance > s2.total_distance
                 THEN QuotientBelowHalf(s2.total_distance, s1.total_distance)
                 ELSE QuotientBelowHalf(s1.total_distance, s2.total_distance)
    IN  IF below THEN NoMatch
        ELSE
        LET n == cfg.resample_count
            resampled1 == resample_route(s1.points, n)
            resampled2 == resample_route(s2.points, n)
            amd_1_to_2 == average_min_distance(resampled1, resampled2)
            amd_2_to_1 == average_min_distance(resampled2, resampled1)
            \* (amd_1_to_2 + amd_2_to_1) / 2, in metres: the sums are in
            \* units of 1 / (n - 1) metre
            avg_amd == Rat(amd_1_to_2[1] * amd_2_to_1[2]
                             + amd_2_to_1[1] * amd_1_to_2[2],
                           2 * amd_1_to_2[2] * amd_2_to_1[2] * (n - 1))
            match_percentage == amd_to_percentage(avg_amd, cfg.perfect_threshold,
                                                  cfg.zero_threshold)
        IN  IF RatLess(match_percentage, RatOfInt(cfg.min_match_percentage))
            THEN NoMatch
            ELSE [ called |-> TRUE, matched |-> TRUE,
                   activity_id_1 |-> s1.activity_id,
                   activity_id_2 |-> s2.activity_id,
                   match_percentage |-> match_percentage,
                   direction |->
                     IF ~RatLess(match_percentage, RatOfInt(PartialBelow))
                     THEN determine_direction_by_endpoints(s1, s2,
                                                           cfg.endpoint_threshold)
                     ELSE "partial",
                   amd |-> avg_amd ]

----------------------------------------------------------------------------
(* The default configuration, with a resample count of 3, and the routes   *)
(* handed to the groupers                                                  *)

DefaultConfig ==
    [ perfect_threshold       |-> PerfectThreshold,
      zero_threshold          |-> ZeroThreshold,
      min_match_percentage    |-> MinMatchPercentage,
      min_route_distance      |-> MinRouteDistance,
      max_distance_diff_ratio |-> MaxDistanceDiffPercent,
      endpoint_threshold      |-> EndpointThreshold,
      resample_count          |-> 3 ]

\* the routes handed to the groupers
GroupTracks ==
    { <<0, 1000>>,                           \* a 1 km route
      <<150, 1000>>,                         \* starts 150 m further on
      <<300, 1000>>,                         \* starts 300 m further on
      <<5000, 5450>>,                        \* 5 km away, shorter than min_route_distance
      <<5000, 5550>>,                        \* beside it, just longer than that
      <<0, 100, 200, 1500, 1600, 2000>>,     \* a 2 km route of six points
      <<2000, 1600, 1000, 500, 100, 0>> }    \* the same road the other way

----------------------------------------------------------------------------
(* The grouping predicate *)

distance_ratio_ok(d1, d2) ==
    IF d1 <= 0 \/ d2 <= 0 THEN FALSE
    ELSE IF d1 > d2 THEN 2 * d2 >= d1 ELSE 2 * d1 >= d2

\* (len as f64 * pos) as usize for pos = 0.25, 0.5, 0.75, as 1-based indices
MiddleIndices(len) == <<len \div 4 + 1, len \div 2 + 1, (3 * len) \div 4 + 1>>

check_middle_points_match(points1, points2, threshold) ==
    IF Len(points1) < 5 \/ Len(points2) < 5 THEN TRUE
    ELSE \A k \in 1..3 :
            ~( haversine_distance(points1[MiddleIndices(Len(points1))[k]],
                                  points2[MiddleIndices(Len(points2))[k]])
                 > threshold )

\* mutant: only the first route is checked for its length
TooShortFirstOnly(s1, s2, cfg) ==
    s1.total_distance < cfg.min_route_distance

\* CHECK 0 of should_group_routes
TooShort(s1, s2, cfg) ==
    \/ s1.total_distance < cfg.min_route_distance
    \/ s2.total_distance < cfg.min_route_distance

should_group_routes(s1, s2, match_result, cfg) ==
    IF TooShort(s1, s2, cfg)
    THEN FALSE
    ELSE IF RatLess(match_result.match_percentage,
                    RatOfInt(cfg.min_match_percentage))
    THEN FALSE
    ELSE
    LET distance_diff == Abs(s1.total_distance - s2.total_distance)
        max_distance == Max2(s1.total_distance, s2.total_distance)
    IN  IF max_distance > 0
             /\ distance_diff * 100 > cfg.max_distance_diff_ratio * max_distance
        THEN FALSE
        ELSE
        IF IsLoop(s1, cfg.endpoint_threshold) /\ IsLoop(s2, cfg.endpoint_threshold)
        THEN IF haversine_distance(s1.start_point, s2.start_point)
                  > cfg.endpoint_threshold
             THEN FALSE
             ELSE check_middle_points_match(s1.points, s2.points,
                                            cfg.endpoint_threshold * 2)
        ELSE
        LET same_direction_ok ==
                /\ haversine_distance(s1.start_point, s2.start_point)
                     < cfg.endpoint_threshold
                /\ haversine_distance(s1.end_point, s2.end_point)
                     < cfg.endpoint_threshold
            reverse_direction_ok ==
                /\ haversine_distance(s1.start_point, s2.end_point)
                     < cfg.endpoint_threshold
                /\ haversine_distance(s1.end_point, s2.start_point)
                     < cfg.endpoint_threshold
        IN  IF ~same_direction_ok /\ ~reverse_direction_ok THEN FALSE
            ELSE LET points2_for_middle ==
                         IF reverse_direction_ok /\ ~same_direction_ok
                         THEN Rev(s2.points) ELSE s2.points
                 IN  check_middle_points_match(s1.points, points2_for_middle,
                                               cfg.endpoint_threshold * 2)

\* lib.rs:769-770: compare_routes returns a match and should_group_routes
\* accepts it
MatchedAndGrouped(s1, s2, cfg) ==
    LET m == compare_routes(s1, s2, cfg)
    IN  m.matched /\ should_group_routes(s1, s2, m, cfg)

\* MatchedAndGrouped of every ordered pair of grouper routes under the
\* default configuration, evaluated once (the decision does not read the
\* activity ids)
GroupTrackDecisions ==
    UNION { IF MatchedAndGrouped(MakeSignature(1, p), MakeSignature(2, q),
                                 DefaultConfig)
            THEN {<<p, q>>} ELSE {} : p \in GroupTracks, q \in GroupTracks }

GroupsTogether(s1, s2, cfg) ==
    IF cfg = DefaultConfig /\ s1.points \in GroupTracks /\ s2.points \in GroupTracks
    THEN <<s1.points, s2.points>> \in GroupTrackDecisions
    ELSE MatchedAndGrouped(s1, s2, cfg)

----------------------------------------------------------------------------
(* Union-find over a map id -> id *)

Put(f, k, v) == [x \in DOMAIN f \cup {k} |-> IF x = k THEN v ELSE f[x]]

\* a variant of find that stops at the parent of id
find_parent_only(par, id) ==
    [root |-> IF id \in DOMAIN par THEN par[id] ELSE id, parent |-> par]

\* find: the root of id and the map after path compression
RECURSIVE find(_, _)
find(par, id) ==
    LET current == IF id \in DOMAIN par THEN par[id] ELSE id
    IN  IF current = id THEN [root |-> id, parent |-> par]
        ELSE LET r == find(par, current)
             IN  [root |-> r.root, parent |-> Put(r.parent, id, r.root)]

\* mutant: the second id, not its root, is re-parented
union_reparents_id(par, id1, id2) ==
    LET r1 == find(par, id1)
        r2 == find(r1.parent, id2)
    IN  IF r1.root # r2.root THEN Put(r2.parent, id2, r1.root)
        ELSE r2.parent

union(par, id1, id2) ==
    LET r1 == find(par, id1)
        r2 == find(r1.parent, id2)
    IN  IF r1.root # r2.root THEN Put(r2.parent, r2.root, r1.root)
        ELSE r2.parent

\* the union calls of a list of (id, id) merges, in order
RECURSIVE ApplyUnions(_, _)
ApplyUnions(par, pairs) ==
    IF pairs = <<>> THEN par
    ELSE ApplyUnions(union(par, pairs[1][1], pairs[1][2]), Tail(pairs))

\* "Build groups": find the root of every signature in slice order and
\* push its id on the root's list; the result is a set of RouteGroup
\* (a HashMap is iterated in no particular order)
\* mutant: the root's list is replaced instead of extended
RECURSIVE BuildListsOverwriting(_, _, _)
BuildListsOverwriting(par, ids, lists) ==
    IF ids = <<>> THEN lists
    ELSE LET r == find(par, ids[1])
         IN  BuildListsOverwriting(r.parent, Tail(ids), Put(lists, r.root, <<ids[1]>>))

RECURSIVE BuildLists(_, _, _)
BuildLists(par, ids, lists) ==
    IF ids = <<>> THEN lists
    ELSE LET r == find(par, ids[1])
             old == IF r.root \in DOMAIN lists THEN lists[r.root] ELSE <<>>
         IN  BuildLists(r.parent, Tail(ids), Put(lists, r.root, Append(old, ids[1])))

\* a variant that files every id under its parent entry instead of its root
BuildGroupsByParent(par, ids) ==
    LET keys == { IF id \in DOMAIN par THEN par[id] ELSE id : id \in {ids[n] : n \in 1..Len(ids)} }
    IN  { [ group_id |-> k,
            activity_ids |-> SelectSeq(ids, LAMBDA id :
                                (IF id \in DOMAIN par THEN par[id] ELSE id) = k) ] :
          k \in keys }

BuildGroups(par, ids) ==
    LET lists == BuildLists(par, ids, <<>>)
    IN  {[group_id |-> g, activity_ids |-> lists[g]] : g \in DOMAIN lists}

----------------------------------------------------------------------------
(* The R-tree of route bounds and the candidate pairs *)

\* locate_in_envelope_intersecting: the ids among `among` whose bounds meet
\* the bounds of s widened by the tolerance
RTreeHits(among, s) ==
    { b \in among :
        /\ signatures[b].bounds.min_lat <= s.bounds.max_lat + Tolerance
        /\ signatures[b].bounds.max_lat >= s.bounds.min_lat - Tolerance }

\* the body of the inner loop of group_signatures for candidate b: does it
\* end in union(sig1, b)?
BatchAccepts(s1, b, cfg) ==
    /\ b # s1.activity_id
    /\ ~(s1.activity_id >= b)
    /\ distance_ratio_ok(s1.total_distance, signatures[b].total_distance)
    /\ GroupsTogether(s1, signatures[b], cfg)

\* the filter chain of group_incremental for candidate b of a new signature
IncrementalAccepts(new_sig, b, cfg) ==
    /\ b # new_sig.activity_id
    /\ distance_ratio_ok(new_sig.total_distance, signatures[b].total_distance)
    /\ (b \notin existing => ~(new_sig.activity_id >= b))
    /\ GroupsTogether(new_sig, signatures[b], cfg)

Range(s) == {s[i] : i \in 1..Len(s)}
Perms(S) == {f \in [1..Cardinality(S) -> S] : \A i, j \in DOMAIN f : f[i] = f[j] => i = j}

RECURSIVE SortedSeq(_)
SortedSeq(S) ==
    IF S = {} THEN <<>>
    ELSE LET m == CHOOSE x \in S : \A y \in S : x <= y
         IN  <<m>> \o SortedSeq(S \ {m})

Identity(S) == [i \in S |-> i]

\* the orders a parallel collect can leave the merges in: the sources in
\* slice order, the merges of one source in the order the R-tree hands out
\* its candidates
RECURSIVE CollectOrders(_, _)
CollectOrders(sources, merges) ==
    IF sources = <<>> THEN {<<>>}
    ELSE { h \o t : h \in Perms({pr \in merges : pr[1] = sources[1]}),
                    t \in CollectOrders(Tail(sources), merges) }

\* mutant: the workers keep the candidates of smaller id, not of larger id
ParallelMergesDescending(among, cfg) ==
    { pr \in among \X among :
        /\ pr[2] \in RTreeHits(among, signatures[pr[1]])
        /\ pr[2] < pr[1]
        /\ distance_ratio_ok(signatures[pr[1]].total_distance,
                             signatures[pr[2]].total_distance)
        /\ GroupsTogether(signatures[pr[1]], signatures[pr[2]], cfg) }

\* the merges group_signatures_parallel collects for the ids `among`
ParallelMerges(among, cfg) ==
    { pr \in among \X among :
        pr[2] \in RTreeHits(among, signatures[pr[1]])
          /\ BatchAccepts(signatures[pr[1]], pr[2], cfg) }

\* the merges group_incremental collects
IncrementalMerges(news, all, cfg) ==
    { pr \in news \X all :
        pr[2] \in RTreeHits(all, signatures[pr[1]])
          /\ IncrementalAccepts(signatures[pr[1]], pr[2], cfg) }

\* a variant of the seeding that leaves every id its own parent
SeedParentIdentity(existing_groups, news) ==
    [ id \in UNION {Range(g.activity_ids) : g \in existing_groups} \cup news |-> id ]

\* the union-find map group_incremental starts from
SeedParent(existing_groups, news) ==
    [ id \in UNION {Range(g.activity_ids) : g \in existing_groups} \cup news |->
        IF id \in news THEN id
        ELSE LET g == CHOOSE h \in existing_groups : id \in Range(h.activity_ids)
             IN  g.activity_ids[1] ]

----------------------------------------------------------------------------
(* Inputs *)

Coords == {GridStep * k : k \in 0..MaxCoord}
PointCounts == {2, 3}
Tracks == UNION {[1..n -> Coords] : n \in PointCounts}

\* the configurations compare_routes is run with: the endpoint threshold at
\* its default and at one grid step, the resample count equal to and above
\* the longest input
CompareConfigs ==
    { [DefaultConfig EXCEPT !.endpoint_threshold = e, !.resample_count = n] :
        e \in {GridStep, EndpointThreshold}, n \in {3, 4} }

Ids == 1..NumSigs

NoGroups == [prior |-> {}, seq |-> {}, par |-> {}, inc |-> {}]
NoSignature == [activity_id |-> 0]

groupVars == <<signatures, existing, new_signatures, run, pc, work, cur, parent, matches,
              groups>>

sectionVars == <<tracks, section_config, stage, overlaps, clusters, medoids,
                 cluster_traces, sections>>
heatVars == <<heat_sigs, heat_bounds, grid, heat_pos, ingested, heatmap, cell_query>>
limiterVars == <<lock, callers>>
fetchVars == <<now, next_dispatch, consecutive_429s, dispatched_count, tasks, starts,
               results, limiterVars>>

\* the section detector, the heatmap and the fetcher are not in use
SectionsIdle ==
    /\ tracks = <<>> /\ section_config = <<>> /\ stage = "idle"
    /\ overlaps = <<>> /\ clusters = <<>> /\ medoids = <<>> /\ cluster_traces = <<>>
    /\ sections = <<>>
HeatIdle ==
    /\ heat_sigs = <<>> /\ heat_bounds = <<>> /\ grid = <<>>
    /\ heat_pos = <<>> /\ ingested = <<>> /\ heatmap = <<>> /\ cell_query = <<>>
LimiterIdle == lock = 0 /\ callers = <<>>
FetchIdle ==
    /\ now = 0 /\ next_dispatch = 0 /\ consecutive_429s = 0 /\ dispatched_count = 0
    /\ tasks = <<>> /\ starts = <<>> /\ results = <<>>
    /\ LimiterIdle

----------------------------------------------------------------------------
(* compare_routes called on a pair of signatures, in both orders *)

InitCompare ==
    /\ mode = "compare"
    /\ config \in CompareConfigs
    /\ sig1 \in {MakeSignature(1, t) : t \in Tracks}
    /\ sig2 \in {MakeSignature(2, t) : t \in Tracks}
    /\ res12 = Unset
    /\ res21 = Unset
    /\ signatures = <<>>
    /\ existing = {}
    /\ new_signatures = <<>>
    /\ run = "done"
    /\ pc = "begin"
    /\ work = <<>>
    /\ cur = 0
    /\ parent = <<>>
    /\ matches = <<>>
    /\ groups = NoGroups
    /\ SectionsIdle /\ HeatIdle /\ FetchIdle

Compare12 ==
    /\ mode = "compare"
    /\ ~res12.called
    /\ res12' = compare_routes(sig1, sig2, config)
    /\ UNCHANGED <<mode, config, sig1, sig2, res21, groupVars,
                   sectionVars, heatVars, fetchVars>>

Compare21 ==
    /\ mode = "compare"
    /\ ~res21.called
    /\ res21' = compare_routes(sig2, sig1, config)
    /\ UNCHANGED <<mode, config, sig1, sig2, res12, groupVars,
                   sectionVars, heatVars, fetchVars>>

NextCompare == Compare12 \/ Compare21

vars == <<mode, config, sig1, sig2, res12, res21, groupVars,
          sectionVars, heatVars, fetchVars>>

SpecCompare == InitCompare /\ [][NextCompare]_vars

----------------------------------------------------------------------------
(* The groupers, called one after the other on the same signatures:        *)
(*   prior  group_signatures(existing_signatures)                          *)
(*   seq    group_signatures(all signatures)                               *)
(*   par    group_signatures_parallel(all signatures)                      *)
(*   inc    group_incremental(new, groups of prior, existing_signatures)   *)

Init ==
    /\ mode = "group"
    /\ config = DefaultConfig
    /\ sig1 = NoSignature
    /\ sig2 = NoSignature
    /\ res12 = Unset
    /\ res21 = Unset
    /\ signatures \in {[i \in Ids |-> MakeSignature(i, t[i])] : t \in [Ids -> GroupTracks]}
    /\ existing \in SUBSET Ids
    /\ new_signatures = <<>>
    /\ run = "prior"
    /\ pc = "begin"
    /\ work = <<>>
    /\ cur = 0
    /\ parent = <<>>
    /\ matches = <<>>
    /\ groups = NoGroups
    /\ SectionsIdle /\ HeatIdle /\ FetchIdle

NextRun(r) == CASE r = "prior" -> "seq" [] r = "seq" -> "par"
                [] r = "par" -> "inc" [] OTHER -> "done"

\* a call returns: its groups are recorded and its locals dropped
\* the modes in which the groupers run: all four calls in turn, or the prior
\* grouping followed by group_incremental on new signatures of any ids
GroupModes == {"group", "regroup"}

Return(result) ==
    /\ groups' = [groups EXCEPT ![run] = result]
    /\ run' = IF mode = "regroup" /\ run = "prior" THEN "inc" ELSE NextRun(run)
    /\ pc' = "begin"
    /\ work' = <<>>
    /\ cur' = 0
    /\ parent' = <<>>
    /\ matches' = <<>>

compareIdle == <<sig1, sig2, res12, res21>>

\* group_signatures up to its outer loop
SeqBegin ==
    /\ mode \in GroupModes /\ run \in {"prior", "seq"} /\ pc = "begin"
    /\ LET ids == IF run = "prior" THEN existing ELSE Ids
       IN  IF ids = {}
           THEN Return({})
           ELSE /\ work' = SortedSeq(ids)
                /\ parent' = Identity(ids)
                /\ cur' = 1
                /\ pc' = "loop"
                /\ UNCHANGED <<run, matches, groups>>
    /\ UNCHANGED <<mode, config, compareIdle, signatures, existing, new_signatures,
                   sectionVars, heatVars, fetchVars>>

\* one iteration of the outer loop of group_signatures: the R-tree hands
\* out the candidates of sig1 in an order of its own
SeqIterate ==
    /\ mode \in GroupModes /\ run \in {"prior", "seq"} /\ pc = "loop"
    /\ cur <= Len(work)
    /\ LET s1 == signatures[work[cur]]
           accepted == { b \in RTreeHits(Range(work), s1) : BatchAccepts(s1, b, config) }
       IN  \E order \in Perms(accepted) :
              parent' = ApplyUnions(parent,
                          [k \in DOMAIN order |-> <<s1.activity_id, order[k]>>])
    /\ cur' = cur + 1
    /\ UNCHANGED <<sectionVars, heatVars, fetchVars>>
    /\ UNCHANGED <<mode, config, compareIdle, signatures, existing, new_signatures, run, pc,
                   work, matches, groups>>

\* "Build groups" of group_signatures
SeqBuild ==
    /\ mode \in GroupModes /\ run \in {"prior", "seq"} /\ pc = "loop"
    /\ cur > Len(work)
    /\ Return(BuildGroups(parent, work))
    /\ UNCHANGED <<mode, config, compareIdle, signatures, existing, new_signatures,
                   sectionVars, heatVars, fetchVars>>

\* group_signatures_parallel up to its union loop: the workers' merges are
\* collected
ParCollect ==
    /\ mode = "group" /\ run = "par" /\ pc = "begin"
    /\ IF Ids = {}
       THEN Return({})
       ELSE /\ matches' \in CollectOrders(SortedSeq(Ids), ParallelMerges(Ids, config))
            /\ parent' = Identity(Ids)
            /\ work' = SortedSeq(Ids)
            /\ pc' = "apply"
            /\ UNCHANGED <<run, cur, groups>>
    /\ UNCHANGED <<mode, config, compareIdle, signatures, existing, new_signatures,
                   sectionVars, heatVars, fetchVars>>

\* group_incremental up to its union loop
IncBegin ==
    /\ mode = "group" /\ run = "inc" /\ pc = "begin"
    /\ LET news == Ids \ existing
           existing_groups == groups.prior
       IN  IF news = {}
           THEN Return(existing_groups)
           ELSE IF existing_groups = {}
           THEN \* group_signatures_parallel(new_signatures)
                /\ matches' \in CollectOrders(SortedSeq(news),
                                              ParallelMerges(news, config))
                /\ parent' = Identity(news)
                /\ work' = SortedSeq(news)
                /\ pc' = "apply"
                /\ UNCHANGED <<run, cur, groups>>
           ELSE /\ work' = SortedSeq(existing) \o SortedSeq(news)
                /\ parent' = SeedParent(existing_groups, news)
                /\ matches' \in CollectOrders(SortedSeq(news),
                                              IncrementalMerges(news, Ids, config))
                /\ pc' = "apply"
                /\ UNCHANGED <<run, cur, groups>>
    /\ UNCHANGED <<mode, config, compareIdle, signatures, existing, new_signatures,
                   sectionVars, heatVars, fetchVars>>

\* one iteration of "for (id1, id2) in matches { union(..) }"
ApplyMatch ==
    /\ mode \in GroupModes /\ run \in {"par", "inc"} /\ pc = "apply"
    /\ matches # <<>>
    /\ parent' = union(parent, matches[1][1], matches[1][2])
    /\ matches' = Tail(matches)
    /\ UNCHANGED <<sectionVars, heatVars, fetchVars>>
    /\ UNCHANGED <<mode, config, compareIdle, signatures, existing, new_signatures, run, pc,
                   work, cur, groups>>

\* "Build groups" of group_signatures_parallel and of group_incremental
ParBuild ==
    /\ mode \in GroupModes /\ run \in {"par", "inc"} /\ pc = "apply"
    /\ matches = <<>>
    /\ Return(BuildGroups(parent, work))
    /\ UNCHANGED <<mode, config, compareIdle, signatures, existing, new_signatures,
                   sectionVars, heatVars, fetchVars>>

Next == SeqBegin \/ SeqIterate \/ SeqBuild \/ ParCollect \/ IncBegin
          \/ ApplyMatch \/ ParBuild

Spec == Init /\ [][Next]_vars

----------------------------------------------------------------------------
(* Properties of compare_routes *)

BothCalled == mode = "compare" /\ res12.called /\ res21.called

SamePoints == sig2.points = sig1.points
ReversedPoints == sig2.points = Rev(sig1.points)

\* the score of the symmetric AMD of two signatures
SymmetricAmd(s1, s2, cfg) ==
    LET r1 == resample_route(s1.points, cfg.resample_count)
        r2 == resample_route(s2.points, cfg.resample_count)
        a == average_min_distance(r1, r2)
        b == average_min_distance(r2, r1)
    IN  Rat(a[1] * b[2] + b[1] * a[2], 2 * a[2] * b[2] * (cfg.resample_count - 1))

ScoreOf(s1, s2, cfg) ==
    amd_to_percentage(SymmetricAmd(s1, s2, cfg), cfg.perfect_threshold,
                      cfg.zero_threshold)

\* C5: compare_routes(a, b) and compare_routes(b, a) are both no-match, or
\* both a match with the same match_percentage, direction and AMD and the
\* two activity ids exchanged.
C5_CompareSymmetric ==
    BothCalled =>
        /\ res12.matched = res21.matched
        /\ res12.matched =>
            /\ res12.match_percentage = res21.match_percentage
            /\ res12.direction = res21.direction
            /\ res12.amd = res21.amd
            /\ res12.activity_id_1 = res21.activity_id_2
            /\ res12.activity_id_2 = res21.activity_id_1

\* two different routes matched in both orders, one the other way round
C5_Witness ==
    /\ BothCalled
    /\ res12.matched
    /\ res12.direction = "reverse"
    /\ sig1.points # Rev(sig2.points)
    /\ sig1.total_distance # sig2.total_distance

\* C6 as stated: compare_routes returns a match exactly when the quotient
\* min(L1,L2)/max(L1,L2) is a number that is at least 0.5 and the score of
\* the symmetric AMD is at least min_match_percentage; a returned
\* match_percentage lies in [min_match_percentage, 100].
C6_MatchIffRatioAndScore_AsStated ==
    (mode = "compare" /\ res12.called) =>
        LET lo == Min2(sig1.total_distance, sig2.total_distance)
            hi == Max2(sig1.total_distance, sig2.total_distance)
            score == ScoreOf(sig1, sig2, config)
            gate == RatOfInt(config.min_match_percentage)
        IN  /\ res12.matched <=> (hi > 0 /\ 2 * lo >= hi /\ ~RatLess(score, gate))
            /\ res12.matched =>
                /\ ~RatLess(res12.match_percentage, gate)
                /\ ~RatLess(RatOfInt(100), res12.match_percentage)

\* C6: compare_routes returns a match exactly when the quotient
\* min(L1,L2)/max(L1,L2) is not below 0.5 (2 * min >= max, which two
\* zero-length routes satisfy: their quotient 0/0 is not a number) and the
\* score of the symmetric AMD is at least min_match_percentage; a returned
\* match_percentage lies in [min_match_percentage, 100].
C6_MatchIffRatioAndScore ==
    (mode = "compare" /\ res12.called) =>
        LET lo == Min2(sig1.total_distance, sig2.total_distance)
            hi == Max2(sig1.total_distance, sig2.total_distance)
            score == ScoreOf(sig1, sig2, config)
            gate == RatOfInt(config.min_match_percentage)
        IN  /\ res12.matched <=> (2 * lo >= hi /\ ~RatLess(score, gate))
            /\ res12.matched =>
                /\ ~RatLess(res12.match_percentage, gate)
                /\ ~RatLess(RatOfInt(100), res12.match_percentage)

\* a match at length ratio exactly one half with a score strictly between
\* the gate and 100
C6_Witness ==
    /\ mode = "compare" /\ res12.called /\ res12.matched
    /\ 2 * Min2(sig1.total_distance, sig2.total_distance)
         = Max2(sig1.total_distance, sig2.total_distance)
    /\ sig1.total_distance > 0
    /\ RatLess(res12.match_percentage, RatOfInt(100))

\* a rejection by the length prefilter of two routes whose score passes
C6_WitnessPrefilter ==
    /\ mode = "compare" /\ res12.called /\ ~res12.matched
    /\ ~RatLess(ScoreOf(sig1, sig2, config), RatOfInt(config.min_match_percentage))

\* C7: a signature compared with a signature of the same points is a match
\* with score >= 95, direction "same" and AMD <= perfect_threshold.
C7_IdenticalRoutesMatch ==
    (mode = "compare" /\ res12.called /\ SamePoints) =>
        /\ res12.matched
        /\ ~RatLess(res12.match_percentage, RatOfInt(95))
        /\ res12.direction = "same"
        /\ ~RatLess(RatOfInt(config.perfect_threshold), res12.amd)

\* a route that is not a loop, with three distinct points, against itself
C7_Witness ==
    /\ mode = "compare" /\ res12.called /\ SamePoints /\ res12.matched
    /\ ~IsLoop(sig1, config.endpoint_threshold)
    /\ Len(sig1.points) = 3
    /\ config.resample_count # 3

\* a stationary route (length 0) against itself
C7_WitnessStationary ==
    /\ mode = "compare" /\ res12.called /\ SamePoints /\ res12.matched
    /\ sig1.total_distance = 0

\* C8 as stated: a route that is not a loop, compared with its reverse, is a
\* match with direction "reverse", for every config.
C8_ReverseOfNonLoop_AsStated ==
    (mode = "compare" /\ res12.called /\ ReversedPoints
        /\ ~IsLoop(sig1, config.endpoint_threshold)) =>
        (res12.matched /\ res12.direction = "reverse")

\* C8 amended: a route whose start-end distance is at least
\* endpoint_threshold and more than half the 100 m direction margin,
\* compared with its reverse, is a match with direction "reverse".
C8_ReverseOfNonLoop ==
    (mode = "compare" /\ res12.called /\ ReversedPoints
        /\ ~IsLoop(sig1, config.endpoint_threshold)
        /\ 2 * haversine_distance(sig1.start_point, sig1.end_point)
             > MinDirectionDiff) =>
        (res12.matched /\ res12.direction = "reverse")

C8_Witness ==
    /\ mode = "compare" /\ res12.called /\ ReversedPoints
    /\ ~IsLoop(sig1, config.endpoint_threshold)
    /\ 2 * haversine_distance(sig1.start_point, sig1.end_point) > MinDirectionDiff
    /\ Len(sig1.points) = 3
    /\ res12.matched /\ res12.direction = "reverse"

BothLoops ==
    IsLoop(sig1, config.endpoint_threshold) /\ IsLoop(sig2, config.endpoint_threshold)

\* C9 as stated: a match between two loops has direction "same".
C9_LoopsSame_AsStated ==
    (mode = "compare" /\ res12.called /\ res12.matched /\ BothLoops) =>
        res12.direction = "same"

\* C9 amended: a match between two loops has direction "same" when its
\* match_percentage is at least 70 and "partial" below 70; it is never
\* "reverse".
C9_LoopsSameOrPartial ==
    (mode = "compare" /\ res12.called /\ res12.matched /\ BothLoops) =>
        res12.direction =
            IF RatLess(res12.match_percentage, RatOfInt(PartialBelow))
            THEN "partial" ELSE "same"

\* two loops run in opposite directions, far enough apart at their ends for
\* the endpoint scores to say "reverse", matched with a score of 70 or more
C9_Witness ==
    /\ mode = "compare" /\ res12.called /\ res12.matched /\ BothLoops
    /\ ~RatLess(res12.match_percentage, RatOfInt(PartialBelow))
    /\ haversine_distance(sig2.start_point, sig1.end_point)
         + haversine_distance(sig2.end_point, sig1.start_point)
       < haversine_distance(sig2.start_point, sig1.start_point)
         + haversine_distance(sig2.end_point, sig1.end_point) - MinDirectionDiff

----------------------------------------------------------------------------
(* Properties of the groupers *)

Finished(r) ==
    /\ mode = "group"
    /\ CASE r = "prior" -> run \in {"seq", "par", "inc", "done"}
         [] r = "seq"   -> run \in {"par", "inc", "done"}
         [] r = "par"   -> run \in {"inc", "done"}
         [] OTHER       -> run = "done"

\* the partition a list of groups stands for
PartitionOf(gs) == {Range(g.activity_ids) : g \in gs}

\* gs is a partition of the ids S
IsPartitionOf(gs, S) ==
    /\ \A id \in S : Cardinality({g \in gs : id \in Range(g.activity_ids)}) = 1
    /\ \A g \in gs :
        /\ Range(g.activity_ids) \subseteq S
        /\ Len(g.activity_ids) = Cardinality(Range(g.activity_ids))

\* C1: the groups returned by group_signatures are a partition of its input:
\* every id is in the activity_ids of exactly one group, once, and no group
\* holds another id.
C1_GroupsPartitionInput ==
    /\ Finished("seq") => IsPartitionOf(groups.seq, Ids)
    /\ Finished("prior") => IsPartitionOf(groups.prior, existing)

\* three signatures grouped into a pair and a singleton
C1_Witness ==
    /\ Finished("seq")
    /\ Cardinality(groups.seq) = 2
    /\ \E g \in groups.seq : Len(g.activity_ids) = 2

\* the pairs group_signatures unions: a before b in id order, b an R-tree
\* candidate of a, the length prefilter passed, compare_routes a match and
\* should_group_routes true
AcceptedPair(a, b) ==
    /\ a < b
    /\ b \in RTreeHits(Ids, signatures[a])
    /\ distance_ratio_ok(signatures[a].total_distance, signatures[b].total_distance)
    /\ GroupsTogether(signatures[a], signatures[b], config)

\* the ids one accepted pair away from the ids of C
Neighbours(C, E) == {b \in Ids : \E a \in C : <<a, b>> \in E \/ <<b, a>> \in E}

\* the ids linked to the ids of C by a chain of accepted pairs
RECURSIVE ChainClosure(_, _)
ChainClosure(C, E) ==
    LET D == C \cup Neighbours(C, E)
    IN  IF D = C THEN C ELSE ChainClosure(D, E)

\* C3: two ids are in the same group of group_signatures exactly when a chain
\* of accepted pairs links them.
C3_GroupsAreEquivalenceClasses ==
    Finished("seq") =>
        LET E == UNION { IF AcceptedPair(a, b) THEN {<<a, b>>} ELSE {} :
                           a \in Ids, b \in Ids }
        IN  PartitionOf(groups.seq) = {ChainClosure({a}, E) : a \in Ids}

\* three signatures in one group, the first and the last of the chain not an
\* accepted pair themselves
C3_Witness ==
    /\ Finished("seq")
    /\ \E g \in groups.seq : Len(g.activity_ids) = 3
    /\ \E a, b \in Ids : a < b /\ ~AcceptedPair(a, b)

\* C4: group_signatures_parallel returns the partition of group_signatures,
\* in whichever order the R-tree handed out the candidates of a signature.
C4_ParallelSamePartition ==
    Finished("par") => PartitionOf(groups.par) = PartitionOf(groups.seq)

\* the parallel grouper built one group of three through a chain of merges:
\* the group's root is not its first member
C4_Witness ==
    /\ Finished("par")
    /\ \E g \in groups.par : Len(g.activity_ids) = 3 /\ g.group_id # g.activity_ids[1]

\* C2: group_incremental on the new signatures, the groups of the existing
\* ones and the existing signatures returns the partition group_signatures
\* returns on all of them.
C2_IncrementalSamePartition ==
    Finished("inc") => PartitionOf(groups.inc) = PartitionOf(groups.seq)

\* C10: after group_signatures and after group_signatures_parallel a
\* signature shorter than min_route_distance is the only member of its group.
ShortOnesAlone(gs) ==
    \A g \in gs : \A id \in Range(g.activity_ids) :
        signatures[id].total_distance < config.min_route_distance
            => g.activity_ids = <<id>>

C10_ShortRoutesStayAlone ==
    /\ Finished("seq") => ShortOnesAlone(groups.seq)
    /\ Finished("par") => ShortOnesAlone(groups.par)

\* a short route next to a route it matches in every other respect, and next
\* to a copy of itself
C10_Witness ==
    /\ Finished("par")
    /\ \E a, b, c \in Ids :
        /\ a # c
        /\ signatures[a].points = <<5000, 5450>>
        /\ signatures[c].points = <<5000, 5450>>
        /\ signatures[b].points = <<5000, 5550>>

----------------------------------------------------------------------------
(* Section detector (sections.rs).  Tracks lie on the same meridian as the  *)
(* routes above: a point is its distance in metres, haversine_distance is   *)
(* the absolute difference.  The R-tree comparisons in squared degrees,     *)
(* dist_sq <= (threshold / 111000)^2, hold for whole metres d and a whole    *)
(* threshold below 500 m exactly when d <= threshold (one degree of         *)
(* latitude is 111195 m).  Indices are the 0-based indices of the code.      *)
(* Loops over the points of a track are written run by run, and values      *)
(* used more than once are handed on as arguments.                          *)

ProximityThreshold == 50
MinSectionLength == 200
MaxSectionLength == 5000
MinActivities == 3
ClusterTolerance == 80
SplitDensityRatio == 2
MinSplitLength == 100
MinSplitPoints == 10
TraceProximityThreshold == 50
MinTracePoints == 3
MaxGap == 3
AmdSamples == 50

DefaultSectionConfig ==
    [ proximity_threshold |-> ProximityThreshold,
      min_section_length  |-> MinSectionLength,
      max_section_length  |-> MaxSectionLength,
      min_activities      |-> MinActivities,
      cluster_tolerance   |-> ClusterTolerance ]

\* points[from .. to), 0-based and half-open as a Rust slice
Slice(points, from, to) == SubSeq(points, from + 1, to)

\* the sum of a sequence of natural numbers: the size of the bag that
\* holds index i s[i] times
SeqSum(s) == BagCardinality([i \in { j \in 1..Len(s) : s[j] > 0 } |-> s[i]])

SetMin(S) == CHOOSE m \in S : \A x \in S : m <= x
SetMax(S) == CHOOSE m \in S : \A x \in S : m >= x

\* geo_utils::polyline_length: the sum of the distances between
\* consecutive points
polyline_length(points) ==
    SeqSum([i \in 1..(Len(points) - 1) |-> Abs(points[i] - points[i + 1])])

\* compute_center: the mean coordinate, as the fraction <<sum, count>>
compute_center(points) ==
    IF points = <<>> THEN <<0, 1>> ELSE <<SeqSum(points), Len(points)>>

\* haversine_distance of two centers is at most the tolerance
CentersWithin(c1, c2, tolerance) ==
    Abs(c1[1] * c2[2] - c2[1] * c1[2]) <= tolerance * c1[2] * c2[2]

DistancesTo(points, q) == [i \in 1..Len(points) |-> Abs(points[i] - q)]

FirstIndexOf(s, v) ==
    CHOOSE i \in 1..Len(s) : s[i] = v /\ \A j \in 1..(i - 1) : s[j] # v

FirstLeast(dists) == FirstIndexOf(dists, SeqMin(dists)) - 1

\* RTree::nearest_neighbor on build_rtree(points): the index of the point
\* nearest to q, the first such index when several are equally near
NearestIdx(points, q) == FirstLeast(DistancesTo(points, q))

MinDistToPoints(q, points) == SetMin({ Abs(points[i] - q) : i \in 1..Len(points) })

\* nearest_neighbor finds a point and it is within the threshold
NearWithin(points, q, threshold) ==
    \E i \in 1..Len(points) : Abs(points[i] - q) <= threshold

\* the indices of the points of the track that are near the reference
NearIndices(track, reference, threshold) ==
    { i \in 0..(Len(track) - 1) : NearWithin(reference, track[i + 1], threshold) }

\* the maximal runs [s, e) of consecutive members of S among 0 .. n - 1
MaximalRuns(S, n) ==
    { r \in (0..n) \X (0..n) :
        /\ r[1] < r[2]
        /\ \A i \in r[1]..(r[2] - 1) : i \in S
        /\ (r[1] - 1) \notin S
        /\ r[2] \notin S }

\* bounds_overlap_tracks: the buffer in degrees is buffer / (111320 cos(lat)),
\* never less than the buffer in metres away from the equator
bounds_overlap_tracks(track_a, track_b, buffer) ==
    /\ track_a # <<>> /\ track_b # <<>>
    /\ ~(SeqMax(track_a) + buffer < SeqMin(track_b))
    /\ ~(SeqMax(track_b) + buffer < SeqMin(track_a))

\* current_length of find_full_track_overlap when the run r of near points
\* closes: the step into each of its points, the step into its first point
\* included unless that is point 0
RunLength(track_a, r) == polyline_length(Slice(track_a, Max2(r[1] - 1, 0), r[2]))

RunLengths(track_a, runs) == [r \in runs |-> RunLength(track_a, r)]

\* the run the loop ends with as the best one: a run of at least `least`
\* metres replaces the best so far when it is strictly longer
LongestFirst(runs, len, least) ==
    LET good == { r \in runs : len[r] >= least }
    IN  IF good = {} THEN <<>>
        ELSE CHOOSE r \in good :
                \A o \in good : \/ len[o] < len[r]
                                \/ (len[o] = len[r] /\ r[1] <= o[1])

BestAmong(track_a, runs, cfg) ==
    LongestFirst(runs, RunLengths(track_a, runs), cfg.min_section_length)

BestRun(track_a, track_b, cfg) ==
    BestAmong(track_a,
              MaximalRuns(NearIndices(track_a, track_b, cfg.proximity_threshold),
                          Len(track_a)),
              cfg)

\* the indices in track B of the points nearest to the points of the run
NearestHits(track_a, track_b, r) ==
    { NearestIdx(track_b, track_a[i + 1]) : i \in r[1]..(r[2] - 1) }

NoOverlap == [found |-> FALSE]

OverlapRecord(activity_a, activity_b, points_a, track_b, hits) ==
    [ found |-> TRUE,
      activity_a |-> activity_a,
      activity_b |-> activity_b,
      points_a |-> points_a,
      points_b |-> Slice(track_b, SetMin(hits), Min2(SetMax(hits) + 1, Len(track_b))),
      center |-> compute_center(points_a) ]

OverlapOfRun(activity_a, track_a, activity_b, track_b, best) ==
    IF best = <<>> THEN NoOverlap
    ELSE OverlapRecord(activity_a, activity_b, Slice(track_a, best[1], best[2]),
                       track_b, NearestHits(track_a, track_b, best))

find_full_track_overlap(activity_a, track_a, activity_b, track_b, cfg) ==
    OverlapOfRun(activity_a, track_a, activity_b, track_b,
                 BestRun(track_a, track_b, cfg))

\* the sample indices (0..len).step_by(max(step, 1)).take(count)
SampleIndices(len, step, count) ==
    { i \in 0..(len - 1) : i % Max2(step, 1) = 0 /\ i \div Max2(step, 1) < count }

MatchedSamples(poly_a, poly_b, threshold, sample_count) ==
    { i \in SampleIndices(Len(poly_a), Len(poly_a) \div sample_count, sample_count) :
        MinDistToPoints(poly_a[i + 1], poly_b) <= threshold }

EnoughMatch(matched, sample_count) == Cardinality(matched) >= sample_count \div 2

overlaps_match(poly_a, poly_b, threshold) ==
    IF poly_a = <<>> \/ poly_b = <<>> THEN FALSE
    ELSE EnoughMatch(MatchedSamples(poly_a, poly_b, threshold, Min2(10, Len(poly_a))),
                     Min2(10, Len(poly_a)))

\* the elements of s at the indices in S, in ascending order of index
PickSeq(s, S) == [k \in 1..Cardinality(S) |-> s[SortedSeq(S)[k]]]

MakeCluster(ovs, members) ==
    [ overlaps |-> PickSeq(ovs, members),
      activity_ids |-> UNION { {ovs[j].activity_a, ovs[j].activity_b} : j \in members } ]

\* the overlaps the inner loop of cluster_overlaps adds to the seed i
Absorbed(ovs, cfg, i, assigned) ==
    { j \in (1..Len(ovs)) \ (assigned \cup {i}) :
        /\ CentersWithin(ovs[i].center, ovs[j].center, cfg.cluster_tolerance)
        /\ overlaps_match(ovs[i].points_a, ovs[j].points_a, cfg.proximity_threshold) }

RECURSIVE ClusterFrom(_, _, _, _)
RECURSIVE ClusterWith(_, _, _, _, _)

ClusterWith(ovs, cfg, i, assigned, members) ==
    <<MakeCluster(ovs, members)>> \o ClusterFrom(ovs, cfg, i + 1, assigned \cup members)

\* cluster_overlaps from overlap i on; assigned holds the indices taken
ClusterFrom(ovs, cfg, i, assigned) ==
    IF i > Len(ovs) THEN <<>>
    ELSE IF i \in assigned THEN ClusterFrom(ovs, cfg, i + 1, assigned)
    ELSE ClusterWith(ovs, cfg, i, assigned, {i} \cup Absorbed(ovs, cfg, i, assigned))

cluster_overlaps(ovs, cfg) == ClusterFrom(ovs, cfg, 1, {})

\* resample_by_distance: a polyline of at most n points is returned as it
\* is; a longer one is interpolated at n equally spaced distances, here
\* taken to whole metres
CumulativeDistances(points) ==
    [i \in 1..Len(points) |-> polyline_length(SubSeq(points, 1, i))]

SegmentOf(cumulative, target) ==
    CHOOSE j \in 1..(Len(cumulative) - 1) :
        /\ (j = Len(cumulative) - 1 \/ cumulative[j + 1] >= target)
        /\ \A k \in 1..(j - 1) : cumulative[k + 1] < target

InterpolateIn(points, cumulative, target, seg) ==
    IF cumulative[seg + 1] - cumulative[seg] > 0
    THEN points[seg] + ((target - cumulative[seg]) * (points[seg + 1] - points[seg]))
                          \div (cumulative[seg + 1] - cumulative[seg])
    ELSE points[seg]

PointAtDistance(points, cumulative, target) ==
    InterpolateIn(points, cumulative, target, SegmentOf(cumulative, target))

ResampleAlong(points, n, cumulative) ==
    IF cumulative[Len(points)] < 1 THEN points
    ELSE [i \in 1..n |->
            PointAtDistance(points, cumulative,
                            ((i - 1) * cumulative[Len(points)]) \div (n - 1))]

resample_by_distance(points, n) ==
    IF Len(points) <= n THEN points
    ELSE ResampleAlong(points, n, CumulativeDistances(points))

AmdOfEmpty == 100000000   \* stands for f64::MAX

SumMinDistTo(from, to) ==
    SeqSum([i \in 1..Len(from) |-> MinDistToPoints(from[i], to)])

AmdOfResampled(resampled_a, resampled_b) ==
    SumMinDistTo(resampled_a, resampled_b) + SumMinDistTo(resampled_b, resampled_a)

\* average_min_distance of sections.rs, times 2 * n = 100
section_average_min_distance(poly_a, poly_b) ==
    IF poly_a = <<>> \/ poly_b = <<>> THEN AmdOfEmpty
    ELSE AmdOfResampled(resample_by_distance(poly_a, AmdSamples),
                        resample_by_distance(poly_b, AmdSamples))

HasTrace(traces, id) == \E k \in 1..Len(traces) : traces[k].id = id

PushTrace(traces, id, points) ==
    IF HasTrace(traces, id) THEN traces
    ELSE Append(traces, [id |-> id, points |-> points])

\* the traces select_medoid collects: both sides of each overlap, the first
\* one seen for an activity
RECURSIVE MedoidTraces(_, _)
MedoidTraces(ovs, traces) ==
    IF ovs = <<>> THEN traces
    ELSE MedoidTraces(Tail(ovs),
            PushTrace(PushTrace(traces, ovs[1].activity_a, ovs[1].points_a),
                      ovs[1].activity_b, ovs[1].points_b))

\* the traces trace i is compared with: all others, or (more than 10
\* traces) up to five evenly spaced ones
ComparedWith(n, i) ==
    IF n <= 10 THEN (1..n) \ {i}
    ELSE { j + 1 : j \in SampleIndices(n, n \div Min2(5, n - 1), Min2(5, n - 1)) } \ {i}

AmdTotal(traces, i, order) ==
    SeqSum([k \in 1..Len(order) |->
              section_average_min_distance(traces[i].points, traces[order[k]].points)])

\* the score select_medoid gives trace i, as the fraction <<total, count>>;
\* count 0 means the trace is passed over
ScoreOver(traces, i, others) ==
    << AmdTotal(traces, i, SortedSeq(others)),
       IF Len(traces) <= 10 THEN 1 ELSE Cardinality(others) >>

MedoidScore(traces, i) == ScoreOver(traces, i, ComparedWith(Len(traces), i))

MedoidScores(traces) == [i \in 1..Len(traces) |-> MedoidScore(traces, i)]

\* best_idx after the loop: the first trace whose score is below that of
\* every trace before it and not above that of any trace after it
LowestFirst(scores) ==
    LET scored == { i \in DOMAIN scores : scores[i][2] > 0 }
    IN  IF scored = {} THEN 1
        ELSE CHOOSE i \in scored :
                \A j \in scored :
                    IF j < i THEN scores[i][1] * scores[j][2] < scores[j][1] * scores[i][2]
                    ELSE scores[i][1] * scores[j][2] <= scores[j][1] * scores[i][2]

MedoidAmong(traces) ==
    IF traces = <<>> THEN [id |-> 0, points |-> <<>>]
    ELSE IF Len(traces) = 1 THEN traces[1]
    ELSE traces[LowestFirst(MedoidScores(traces))]

select_medoid(cluster) == MedoidAmong(MedoidTraces(cluster.overlaps, <<>>))

\* forward or backward steps among the reference indices of the samples
DirectionOf(ref_indices) ==
    IF Cardinality({ i \in 2..Len(ref_indices) : ref_indices[i] < ref_indices[i - 1] })
         > Cardinality({ i \in 2..Len(ref_indices) : ref_indices[i] > ref_indices[i - 1] })
    THEN "reverse" ELSE "same"

SampledRefIndices(track_portion, reference, sample_count) ==
    [i \in 1..sample_count |->
        NearestIdx(reference,
            track_portion[Min2((i - 1) * (Len(track_portion) \div sample_count),
                               Len(track_portion) - 1) + 1])]

detect_direction_robust(track_portion, reference) ==
    IF Len(track_portion) < 3 \/ Len(reference) < 3 THEN "same"
    ELSE DirectionOf(SampledRefIndices(track_portion, reference,
                                       Min2(5, Len(track_portion))))

NoPortion == [found |-> FALSE]

\* the run of near points that ends last
FinalRun(runs) == CHOOSE r \in runs : \A o \in runs : o[2] <= r[2]

PortionOfRun(track, reference, r) ==
    [ found |-> TRUE, start_idx |-> r[1], end_idx |-> r[2],
      direction |-> detect_direction_robust(Slice(track, r[1], r[2]), reference) ]

PortionAmong(track, reference, runs) ==
    IF runs = {} THEN NoPortion ELSE PortionOfRun(track, reference, FinalRun(runs))

\* find_track_portion: start_idx is set anew each time the track comes
\* near the reference again, end_idx follows the last near point
find_track_portion(track, reference, threshold) ==
    IF track = <<>> \/ reference = <<>> THEN NoPortion
    ELSE PortionAmong(track, reference,
                      MaximalRuns(NearIndices(track, reference, threshold), Len(track)))

PortionRecord(a, portion, track) ==
    [ activity_id |-> a,
      start_index |-> portion.start_idx,
      end_index |-> portion.end_idx,
      distance_meters |-> polyline_length(Slice(track, portion.start_idx,
                                                portion.end_idx)),
      direction |-> portion.direction ]

PortionsFound(ids, found_for, all_tracks) ==
    [k \in 1..Len(ids) |-> PortionRecord(ids[k], found_for[ids[k]], all_tracks[ids[k]])]

PortionRecords(found_for, all_tracks) ==
    PortionsFound(SortedSeq({ a \in DOMAIN found_for : found_for[a].found }),
                  found_for, all_tracks)

\* compute_activity_portions: the portions, by ascending activity
compute_activity_portions(cluster, representative_polyline, all_tracks, cfg) ==
    PortionRecords([a \in cluster.activity_ids \cap DOMAIN all_tracks |->
                       find_track_portion(all_tracks[a], representative_polyline,
                                          cfg.proximity_threshold)],
                   all_tracks)

\* the last near point at or before point i, -1 if there is none
LastNear(near, i) == SetMax({ j \in near : j <= i } \cup {-1})

\* a variant of the loop that tolerates one more far point in a row
TracePushedFurther(near, n) ==
    { i \in 0..(n - 1) : LastNear(near, i) # -1 /\ i - LastNear(near, i) <= MaxGap + 1 }

\* The loop of extract_activity_trace.  A point of the track is pushed to
\* the current sequence when it is near the section, or when it is one of
\* the first MaxGap far points after a near one; the (MaxGap + 1)-th far
\* point in a row closes the sequence.  The sequences are therefore the
\* maximal runs of pushed points, and those of at least MinTracePoints
\* points are kept.
TracePushed(near, n) ==
    { i \in 0..(n - 1) : LastNear(near, i) # -1 /\ i - LastNear(near, i) <= MaxGap }

LongRuns(runs) == { r \in runs : r[2] - r[1] >= MinTracePoints }

\* the runs by ascending start
RunsInOrder(runs) ==
    [k \in 1..Cardinality(runs) |->
        CHOOSE r \in runs : Cardinality({ o \in runs : o[1] < r[1] }) = k - 1]

SlicesOf(track, ordered) ==
    [k \in 1..Len(ordered) |-> Slice(track, ordered[k][1], ordered[k][2])]

TraceSequences(track, polyline) ==
    SlicesOf(track,
        RunsInOrder(LongRuns(MaximalRuns(
            TracePushed(NearIndices(track, polyline,
                                    (TraceProximityThreshold * 12) \div 10),
                        Len(track)),
            Len(track)))))

\* the indices 1 .. Len(keys) in ascending order of key, equal keys in
\* their original order: the order a stable sort leaves
StableOrder(keys) ==
    [k \in 1..Len(keys) |->
        CHOOSE i \in 1..Len(keys) :
            Cardinality({ j \in 1..Len(keys) :
                            keys[j] < keys[i] \/ (keys[j] = keys[i] /\ j < i) }) = k - 1]

RECURSIVE ConcatInOrder(_, _)
ConcatInOrder(seqs, order) ==
    IF order = <<>> THEN <<>>
    ELSE seqs[order[1]] \o ConcatInOrder(seqs, Tail(order))

\* sort_by_key on the section index nearest to each sequence's first point,
\* then the concatenation
MergeByPosition(seqs, polyline) ==
    ConcatInOrder(seqs,
        StableOrder([k \in 1..Len(seqs) |-> NearestIdx(polyline, seqs[k][1])]))

MergedTrace(sequences, section_polyline) ==
    IF sequences = <<>> THEN <<>>
    ELSE IF Len(sequences) = 1 THEN sequences[1]
    ELSE MergeByPosition(sequences, section_polyline)

extract_activity_trace(track, section_polyline) ==
    IF Len(track) < MinTracePoints \/ Len(section_polyline) < 2 THEN <<>>
    ELSE MergedTrace(TraceSequences(track, section_polyline), section_polyline)

NonEmptyOnly(m) == [a \in { x \in DOMAIN m : m[x] # <<>> } |-> m[a]]

\* extract_all_activity_traces: the map activity id -> non-empty trace
extract_all_activity_traces(activity_ids, section_polyline, track_map) ==
    NonEmptyOnly([a \in activity_ids \cap DOMAIN track_map |->
                     extract_activity_trace(track_map[a], section_polyline)])

\* sum of two fractions, normalised
RatAdd(x, y) == Rat(x[1] * y[2] + y[1] * x[2], x[2] * y[2])

\* n / d rounded to the nearest whole number (d > 0)
RoundDiv(n, d) ==
    IF n >= 0 THEN (2 * n + d) \div (2 * d) ELSE 0 - ((2 * (0 - n) + d) \div (2 * d))

IsNearTrace(trace, ref_point, threshold) == NearWithin(trace, ref_point, threshold)

NearestPointsOf(ref_point, near_traces) ==
    [k \in 1..Len(near_traces) |->
        near_traces[k][NearestIdx(near_traces[k], ref_point) + 1]]

\* for one reference point: the nearest point of every trace that comes
\* within the threshold of it
NearbyObservations(ref_point, traces, threshold) ==
    NearestPointsOf(ref_point,
        SelectSeq(traces, LAMBDA trace : IsNearTrace(trace, ref_point, threshold)))

SumSigns(ref_point, obs) ==
    Cardinality({ k \in 1..Len(obs) : obs[k] > ref_point })
      - Cardinality({ k \in 1..Len(obs) : ~(obs[k] > ref_point) })

RECURSIVE SumInverse(_, _)
SumInverse(ref_point, obs) ==
    IF obs = <<>> THEN <<0, 1>>
    ELSE RatAdd(<<1, Abs(obs[1] - ref_point)>>, SumInverse(ref_point, Tail(obs)))

CentroidFrom(ref_point, signs, inverse) ==
    ref_point + RoundDiv(signs * inverse[2], inverse[1])

\* the weighted centroid of the observations with weight 1 / (distance +
\* 0.000001): the reference point itself, to within a millimetre, when an
\* observation lies on it, and otherwise ref + (sum of signs) / (sum of
\* 1 / distance), taken to the nearest metre
WeightedCentroid(ref_point, obs) ==
    IF obs = <<>> THEN ref_point
    ELSE IF \E k \in 1..Len(obs) : obs[k] = ref_point THEN ref_point
    ELSE CentroidFrom(ref_point, SumSigns(ref_point, obs), SumInverse(ref_point, obs))

ConsensusFrom(reference, observation_count, obs) ==
    [ polyline |-> [i \in 1..Len(reference) |-> WeightedCentroid(reference[i], obs[i])],
      observation_count |-> observation_count,
      point_density |-> [i \in 1..Len(reference) |-> Len(obs[i])] ]

compute_consensus_polyline(reference, all_traces, proximity_threshold) ==
    IF reference = <<>> \/ all_traces = <<>>
    THEN [ polyline |-> reference,
           observation_count |-> 0,
           point_density |-> [i \in 1..Len(reference) |-> 0] ]
    ELSE ConsensusFrom(reference, Len(all_traces),
            [i \in 1..Len(reference) |->
                NearbyObservations(reference[i], all_traces, proximity_threshold)])

\* the values of a map as a sequence (by ascending key)
MapValues(m) == [k \in 1..Cardinality(DOMAIN m) |-> m[SortedSeq(DOMAIN m)[k]]]

NoSection == [made |-> FALSE]

EmptyTraces == [a \in {} |-> <<>>]

\* the FrequentSection of process_cluster; the id string is held as the tuple
\* of its parts: the index, then the suffixes (out, ret, split n) it is given
BuildSection(idx, cluster, medoid, activity_traces, consensus, activity_portions) ==
    [ made |-> TRUE,
      id |-> <<idx>>,
      polyline |-> consensus.polyline,
      representative_activity_id |-> medoid.id,
      activity_ids |-> SortedSeq(cluster.activity_ids),
      activity_portions |-> activity_portions,
      visit_count |-> Len(cluster.overlaps) + 1,
      distance_meters |-> polyline_length(consensus.polyline),
      activity_traces |-> activity_traces,
      observation_count |-> consensus.observation_count,
      point_density |-> consensus.point_density ]

\* process_cluster goes on with a medoid that is not empty and not longer
\* than max_section_length
MedoidAccepted(medoid, cfg) ==
    /\ medoid.points # <<>>
    /\ ~(polyline_length(medoid.points) > cfg.max_section_length)

\* process_cluster, the traces of the cluster's activities
TracesFor(cluster, medoid, track_map, cfg) ==
    IF MedoidAccepted(medoid, cfg)
    THEN extract_all_activity_traces(cluster.activity_ids, medoid.points, track_map)
    ELSE EmptyTraces

\* process_cluster from the medoid and the traces on
SectionFrom(idx, cluster, medoid, activity_traces, track_map, cfg) ==
    IF MedoidAccepted(medoid, cfg)
    THEN BuildSection(idx, cluster, medoid, activity_traces,
            compute_consensus_polyline(medoid.points, MapValues(activity_traces),
                                       cfg.proximity_threshold),
            compute_activity_portions(cluster, medoid.points, track_map, cfg))
    ELSE NoSection

\* compute_fold_ratio as the fraction <<close_count, third>>; <<0, 1>> is 0.0
CloseInLastThird(polyline, threshold, third) ==
    { i \in (Len(polyline) - third)..(Len(polyline) - 1) :
        NearWithin(Slice(polyline, 0, third), polyline[i + 1], threshold) }

compute_fold_ratio(polyline, threshold) ==
    IF Len(polyline) < 6 THEN <<0, 1>>
    ELSE << Cardinality(CloseInLastThird(polyline, threshold, Len(polyline) \div 3)),
            Len(polyline) \div 3 >>

NoFold == -1

FoldCandidates(polyline, threshold, half) ==
    { i \in half..(Len(polyline) - 1) :
        NearWithin(Slice(polyline, 0, half), polyline[i + 1], threshold) }

FirstOfThree(fold_candidates) ==
    IF Cardinality(fold_candidates) >= 3 THEN SetMin(fold_candidates) ELSE NoFold

\* detect_fold_point: the index of the first point of the second half that
\* is close to the first half, if at least three are; NoFold otherwise
detect_fold_point(polyline, threshold) ==
    IF Len(polyline) < 10 THEN NoFold
    ELSE FirstOfThree(FoldCandidates(polyline, threshold, Len(polyline) \div 2))

\* the clone split_folding_sections makes for one side of the fold, pushed
\* only if it is long enough
FoldClone(section, tag, half_polyline, half_length, cfg) ==
    IF half_length >= cfg.min_section_length
    THEN << [section EXCEPT !.id = Append(section.id, tag),
                            !.polyline = half_polyline,
                            !.distance_meters = half_length,
                            !.activity_traces = EmptyTraces] >>
    ELSE <<>>

FoldHalf(section, tag, half_polyline, cfg) ==
    FoldClone(section, tag, half_polyline, polyline_length(half_polyline), cfg)

SplitAtFold(section, fold_idx, cfg) ==
    IF fold_idx = NoFold THEN <<section>>
    ELSE FoldHalf(section, "out", Slice(section.polyline, 0, fold_idx), cfg)
           \o FoldHalf(section, "ret",
                       Slice(section.polyline, fold_idx, Len(section.polyline)), cfg)

IsFolding(fold_ratio) == 2 * fold_ratio[1] > fold_ratio[2]

\* what split_folding_sections pushes for one section
FoldSplitOne(section, cfg) ==
    IF IsFolding(compute_fold_ratio(section.polyline, cfg.proximity_threshold))
    THEN SplitAtFold(section,
                     detect_fold_point(section.polyline, cfg.proximity_threshold), cfg)
    ELSE <<section>>

RECURSIVE split_folding_sections(_, _)
split_folding_sections(secs, cfg) ==
    IF secs = <<>> THEN <<>>
    ELSE FoldSplitOne(secs[1], cfg) \o split_folding_sections(Tail(secs), cfg)

\* compute_containment as the fraction <<contained_points, len>>
compute_containment(poly_a, poly_b, threshold) ==
    IF poly_a = <<>> THEN <<0, 1>>
    ELSE << Cardinality(NearIndices(poly_a, poly_b, threshold)), Len(poly_a) >>

\* fraction x exceeds n / d
RatAbove(x, n, d) == x[1] * d > n * x[2]

Reversed(s) == [i \in 1..Len(s) |-> s[Len(s) + 1 - i]]

\* the elements of s in the given order of indices
InOrder(s, order) == [k \in 1..Len(order) |-> s[order[k]]]

\* the sections whose keep flag is still set, in order
KeepOnly(secs, keep) ==
    InOrder(secs, SelectSeq([i \in 1..Len(secs) |-> i], LAMBDA i : keep[i]))

\* sections of very different lengths are not compared
LengthsApart(length_i, length_j) ==
    \/ length_i > 3 * Max2(length_j, 1)
    \/ 100 * length_i < 33 * Max2(length_j, 1)

\* the test of merge_nearby_sections on section i and a later section j
MergesInto(section_i, section_j, cfg) ==
    /\ ~LengthsApart(section_i.distance_meters, section_j.distance_meters)
    /\ \/ RatAbove(compute_containment(section_j.polyline, section_i.polyline,
                                       cfg.proximity_threshold * 2), 4, 10)
       \/ RatAbove(compute_containment(Reversed(section_j.polyline), section_i.polyline,
                                       cfg.proximity_threshold * 2), 4, 10)

RECURSIVE MergeLoop(_, _, _, _, _)
MergeLoop(secs, cfg, i, j, keep) ==
    IF i > Len(secs) THEN keep
    ELSE IF ~keep[i] \/ j > Len(secs) THEN MergeLoop(secs, cfg, i + 1, i + 2, keep)
    ELSE IF keep[j] /\ MergesInto(secs[i], secs[j], cfg)
    THEN MergeLoop(secs, cfg, i, j + 1, [keep EXCEPT ![j] = FALSE])
    ELSE MergeLoop(secs, cfg, i, j + 1, keep)

AllKept(secs) == [i \in 1..Len(secs) |-> TRUE]

MergeSorted(sorted, cfg) == KeepOnly(sorted, MergeLoop(sorted, cfg, 1, 2, AllKept(sorted)))

\* sort_by visit count, descending
ByVisits(secs) == InOrder(secs, StableOrder([i \in 1..Len(secs) |-> 0 - secs[i].visit_count]))

merge_nearby_sections(secs, cfg) ==
    IF Len(secs) < 2 THEN secs ELSE MergeSorted(ByVisits(secs), cfg)

\* a variant of the tests that only asks whether the longer section lies in
\* the shorter one
VerdictContainedOnly(j_in_i, i_in_j) ==
    IF RatAbove(j_in_i, 6, 10) THEN "j" ELSE "none"

\* the three tests of remove_overlapping_sections on section i and a later
\* section j: "j" drops j, "i" drops i and leaves the inner loop
VerdictOf(j_in_i, i_in_j) ==
    IF RatAbove(j_in_i, 6, 10) THEN "j"
    ELSE IF RatAbove(i_in_j, 8, 10) THEN "i"
    ELSE IF RatAbove(j_in_i, 4, 10) /\ RatAbove(i_in_j, 4, 10) THEN "j"
    ELSE "none"

DedupVerdict(section_i, section_j, cfg) ==
    VerdictOf(compute_containment(section_j.polyline, section_i.polyline,
                                  cfg.proximity_threshold),
              compute_containment(section_i.polyline, section_j.polyline,
                                  cfg.proximity_threshold))

RECURSIVE DedupLoop(_, _, _, _, _)
RECURSIVE DedupAfter(_, _, _, _, _, _)

DedupAfter(secs, cfg, i, j, keep, verdict) ==
    IF verdict = "j" THEN DedupLoop(secs, cfg, i, j + 1, [keep EXCEPT ![j] = FALSE])
    ELSE IF verdict = "i" THEN DedupLoop(secs, cfg, i + 1, i + 2, [keep EXCEPT ![i] = FALSE])
    ELSE DedupLoop(secs, cfg, i, j + 1, keep)

DedupLoop(secs, cfg, i, j, keep) ==
    IF i > Len(secs) THEN keep
    ELSE IF ~keep[i] \/ j > Len(secs) THEN DedupLoop(secs, cfg, i + 1, i + 2, keep)
    ELSE IF ~keep[j] THEN DedupLoop(secs, cfg, i, j + 1, keep)
    ELSE DedupAfter(secs, cfg, i, j, keep, DedupVerdict(secs[i], secs[j], cfg))

DedupSorted(sorted, cfg) == KeepOnly(sorted, DedupLoop(sorted, cfg, 1, 2, AllKept(sorted)))

\* sort_by length ascending, then visit count (below 1000) descending
ByLengthThenVisits(secs) ==
    InOrder(secs, StableOrder([i \in 1..Len(secs) |->
                                  secs[i].distance_meters * 1000 - secs[i].visit_count]))

remove_overlapping_sections(secs, cfg) ==
    IF Len(secs) < 2 THEN secs ELSE DedupSorted(ByLengthThenVisits(secs), cfg)

\* sum of density[from .. to), 0-based and half-open
DensitySum(density, from, to) == SeqSum(Slice(density, from, to))

\* the local density is at least 1.5 times the endpoint density, which is
\* ends / (2 * endpoint_window)
IsHigh(d, ends, endpoint_window) == ~(4 * endpoint_window * d < 3 * ends)

RECURSIVE ExpandStart(_, _, _, _)
ExpandStart(density, start_idx, ends, endpoint_window) ==
    IF start_idx > 0 /\ IsHigh(density[start_idx], ends, endpoint_window)
    THEN ExpandStart(density, start_idx - 1, ends, endpoint_window)
    ELSE start_idx

RECURSIVE ExpandEnd(_, _, _, _)
ExpandEnd(density, end_idx, ends, endpoint_window) ==
    IF end_idx < Len(density) - 1 /\ IsHigh(density[end_idx + 2], ends, endpoint_window)
    THEN ExpandEnd(density, end_idx + 1, ends, endpoint_window)
    ELSE end_idx

NoCandidates == [panicked |-> FALSE, candidates |-> <<>>]
SlicePanic == [panicked |-> TRUE, candidates |-> <<>>]

\* avg_density is kept as the whole number the caller casts it to
Candidate(density, start_idx, end_idx) ==
    [ start_idx |-> start_idx,
      end_idx |-> end_idx,
      avg_density |-> DensitySum(density, start_idx, end_idx + 1)
                        \div (end_idx - start_idx + 1) ]

WithCandidate(candidate, rest) ==
    [ panicked |-> rest.panicked, candidates |-> <<candidate>> \o rest.candidates ]

RECURSIVE SplitScan(_, _, _, _, _, _)
RECURSIVE ScanRegion(_, _, _, _, _, _, _, _)

\* a high-density window was found at i and widened to start_idx ..= end_idx.
\* The slice polyline[start_idx ..= end_idx] is out of range, and the thread
\* panics, when the polyline is shorter than the density
ScanRegion(polyline, density, i, window_size, ends, endpoint_window,
           start_idx, end_idx) ==
    IF end_idx > start_idx /\ end_idx >= Len(polyline) THEN SlicePanic
    ELSE IF /\ end_idx > start_idx
            /\ polyline_length(Slice(polyline, start_idx, end_idx + 1)) >= MinSplitLength
            /\ end_idx - start_idx >= MinSplitPoints
    THEN WithCandidate(Candidate(density, start_idx, end_idx),
                       SplitScan(polyline, density, end_idx + window_size,
                                 window_size, ends, endpoint_window))
    ELSE SplitScan(polyline, density, i + 1, window_size, ends, endpoint_window)

\* the sliding-window loop of find_split_candidates from index i on; the
\* window is high when its density is at least SplitDensityRatio times the
\* endpoint density
SplitScan(polyline, density, i, window_size, ends, endpoint_window) ==
    IF ~(i < Len(density) - window_size) THEN NoCandidates
    ELSE IF 2 * endpoint_window
              * DensitySum(density, i - window_size \div 2, i + window_size \div 2)
            >= SplitDensityRatio * window_size * ends
    THEN ScanRegion(polyline, density, i, window_size, ends, endpoint_window,
                    ExpandStart(density, i - window_size \div 2, ends, endpoint_window),
                    ExpandEnd(density, i + window_size \div 2, ends, endpoint_window))
    ELSE SplitScan(polyline, density, i + 1, window_size, ends, endpoint_window)

ScanWith(section, endpoint_window, ends) ==
    IF ends < 2 * endpoint_window THEN NoCandidates
    ELSE SplitScan(section.polyline, section.point_density,
                   Max2(Len(section.point_density) \div 5, MinSplitPoints),
                   Max2(Len(section.point_density) \div 5, MinSplitPoints),
                   ends, endpoint_window)

EndsSum(density, endpoint_window) ==
    DensitySum(density, 0, endpoint_window)
      + DensitySum(density, Len(density) - endpoint_window, Len(density))

ScanFrom(section, endpoint_window) ==
    ScanWith(section, endpoint_window, EndsSum(section.point_density, endpoint_window))

find_split_candidates(section) ==
    IF Len(section.point_density) < MinSplitPoints * 2 THEN NoCandidates
    ELSE ScanFrom(section, Max2(Len(section.point_density) \div 10, 3))

\* the points of the track within the threshold of the split polyline
OverlapPoints(track, split_polyline, threshold) ==
    SelectSeq(track, LAMBDA point : NearWithin(split_polyline, point, threshold))

OverlapsWith(activity_ids, track_map, split_polyline, threshold) ==
    [a \in Range(activity_ids) \cap DOMAIN track_map |->
        OverlapPoints(track_map[a], split_polyline, threshold)]

\* the section split_section_by_density builds from one candidate, made
\* only if enough activities overlap it
SplitOfMembers(section, split_idx, candidate, split_polyline, split_distance,
               overlap_points, split_activity_ids, cfg) ==
    IF Len(split_activity_ids) >= cfg.min_activities
    THEN << [ made |-> TRUE,
              id |-> section.id \o <<"split", split_idx>>,
              polyline |-> split_polyline,
              representative_activity_id |-> section.representative_activity_id,
              activity_ids |-> split_activity_ids,
              activity_portions |-> <<>>,
              visit_count |-> candidate.avg_density,
              distance_meters |-> split_distance,
              activity_traces |->
                  [a \in { x \in Range(split_activity_ids) : overlap_points[x] # <<>> }
                     |-> overlap_points[a]],
              observation_count |-> candidate.avg_density,
              point_density |-> Slice(section.point_density, candidate.start_idx,
                                      candidate.end_idx + 1) ] >>
    ELSE <<>>

SplitOfOverlaps(section, split_idx, candidate, split_polyline, split_distance,
                overlap_points, cfg) ==
    SplitOfMembers(section, split_idx, candidate, split_polyline, split_distance,
        overlap_points,
        SelectSeq(section.activity_ids,
                  LAMBDA a : /\ a \in DOMAIN overlap_points
                             /\ 2 * polyline_length(overlap_points[a]) >= split_distance),
        cfg)

SplitOfPolyline(section, split_idx, candidate, split_polyline, track_map, cfg) ==
    SplitOfOverlaps(section, split_idx, candidate, split_polyline,
        polyline_length(split_polyline),
        OverlapsWith(section.activity_ids, track_map, split_polyline,
                     cfg.proximity_threshold),
        cfg)

SplitSection(section, split_idx, candidate, track_map, cfg) ==
    SplitOfPolyline(section, split_idx, candidate,
        Slice(section.polyline, candidate.start_idx, candidate.end_idx + 1),
        track_map, cfg)

RECURSIVE SplitSections(_, _, _, _, _)
SplitSections(section, candidates, split_idx, track_map, cfg) ==
    IF split_idx >= Len(candidates) THEN <<>>
    ELSE SplitSection(section, split_idx, candidates[split_idx + 1], track_map, cfg)
           \o SplitSections(section, candidates, split_idx + 1, track_map, cfg)

SplitByCandidates(section, found, track_map, cfg) ==
    IF found.panicked THEN [panicked |-> TRUE, sections |-> <<>>]
    ELSE IF found.candidates = <<>> THEN [panicked |-> FALSE, sections |-> <<section>>]
    ELSE [ panicked |-> FALSE,
           sections |-> SplitSections(section, found.candidates, 0, track_map, cfg)
                          \o <<section>> ]

\* split_section_by_density: the split sections, then the original one
split_section_by_density(section, track_map, cfg) ==
    SplitByCandidates(section, find_split_candidates(section), track_map, cfg)

ExtendSplit(first, rest) ==
    IF first.panicked \/ rest.panicked THEN [panicked |-> TRUE, sections |-> <<>>]
    ELSE [panicked |-> FALSE, sections |-> first.sections \o rest.sections]

RECURSIVE split_high_variance_sections(_, _, _)
split_high_variance_sections(secs, track_map, cfg) ==
    IF secs = <<>> THEN [panicked |-> FALSE, sections |-> <<>>]
    ELSE ExtendSplit(split_section_by_density(secs[1], track_map, cfg),
                     split_high_variance_sections(Tail(secs), track_map, cfg))

----------------------------------------------------------------------------
(* detect_sections_from_tracks as a sequence of stages.  All activities are *)
(* of one sport, no route groups are passed in, and activity i is the i-th  *)
(* track; sets and maps keyed by activity are walked in ascending order.    *)

NumActs == 4      \* at most this many tracks are handed to the detector
TrackStep == 50   \* metres between consecutive points of the longer tracks

\* k + 1 points from `from`, TrackStep apart, heading up (dir = 1) or down
Leg(from, k, dir) == [i \in 1..(k + 1) |-> from + dir * (i - 1) * TrackStep]

LongTrack == Leg(0, 20, 1)                          \* 0 .. 1000 m
ShortTrack == Leg(250, 10, 1)                       \* 250 .. 750 m
OutAndBack == Leg(0, 10, 1) \o Leg(450, 9, -1)      \* 0 .. 500 .. 0 m
TwoPointOut == <<0, 1000>>
TwoPointBack == <<2000, 1000>>

SectionTracks == {LongTrack, ShortTrack, OutAndBack, TwoPointOut, TwoPointBack}

\* tracks of three fixes, 200 m and 100 m apart
SparseWide == <<0, 200, 400>>
SparseNarrow == <<100, 200, 300>>

SparseTracks == {SparseWide, SparseNarrow}

\* out-and-back tracks whose way back lies between the fixes of the way out:
\* 0 .. 500 m and back to 25 m, and 180 .. 480 m and back to 205 m
OffsetOutAndBack == Leg(0, 10, 1) \o Leg(475, 9, -1)
ShortOutAndBack == Leg(180, 6, 1) \o Leg(455, 5, -1)

FoldTracks == {OffsetOutAndBack, ShortOutAndBack}

\* the inputs: tracks of one catalogue
TrackLists(n) == [1..n -> SectionTracks] \cup [1..n -> SparseTracks] \cup [1..n -> FoldTracks]

RoutesIdle ==
    /\ config = DefaultConfig
    /\ sig1 = NoSignature /\ sig2 = NoSignature
    /\ res12 = Unset /\ res21 = Unset
    /\ signatures = <<>> /\ existing = {} /\ new_signatures = <<>>
    /\ run = "done" /\ pc = "begin"
    /\ work = <<>> /\ cur = 0 /\ parent = <<>> /\ matches = <<>>
    /\ groups = NoGroups

routeVars == <<mode, config, compareIdle, groupVars>>

InitSections ==
    /\ mode = "sections"
    /\ RoutesIdle
    /\ tracks \in UNION { TrackLists(n) : n \in (MinActivities - 1)..NumActs }
    /\ section_config = DefaultSectionConfig
    /\ stage = "start"
    /\ overlaps = <<>>
    /\ clusters = <<>>
    /\ medoids = <<>>
    /\ cluster_traces = <<>>
    /\ sections = <<>>
    /\ HeatIdle /\ FetchIdle

\* all pairs (i, j), i < j, in the order the code generates them
PairsFrom(n) ==
    [k \in 1..((n * (n - 1)) \div 2) |->
        CHOOSE p \in (1..n) \X (1..n) :
            /\ p[1] < p[2]
            /\ Cardinality({ q \in (1..n) \X (1..n) :
                               /\ q[1] < q[2]
                               /\ (q[1] < p[1] \/ (q[1] = p[1] /\ q[2] < p[2])) }) = k - 1]

\* the bounding-box check, then the overlap
PairOverlap(i, j, trks, cfg) ==
    IF bounds_overlap_tracks(trks[i], trks[j], cfg.proximity_threshold)
    THEN find_full_track_overlap(i, trks[i], j, trks[j], cfg)
    ELSE NoOverlap

\* filter_map over the pairs
FoundOverlaps(pairs, trks, cfg) ==
    SelectSeq([k \in 1..Len(pairs) |-> PairOverlap(pairs[k][1], pairs[k][2], trks, cfg)],
              LAMBDA o : o.found)

\* too few tracks: detect_sections_from_tracks returns no sections at once
TooFewTracks ==
    /\ mode = "sections" /\ stage = "start"
    /\ Len(tracks) < section_config.min_activities
    /\ stage' = "done"
    /\ UNCHANGED <<tracks, section_config, overlaps, clusters, medoids, cluster_traces, sections>>
    /\ UNCHANGED <<routeVars, heatVars, fetchVars>>

FindOverlaps ==
    /\ mode = "sections" /\ stage = "start"
    /\ Len(tracks) >= section_config.min_activities
    /\ overlaps' = FoundOverlaps(PairsFrom(Len(tracks)), tracks, section_config)
    /\ stage' = "overlaps"
    /\ UNCHANGED <<tracks, section_config, clusters, medoids, cluster_traces, sections>>
    /\ UNCHANGED <<routeVars, heatVars, fetchVars>>

\* a variant of the cluster filter that lets every cluster through
SignificantClusterAlways(c, cfg) == TRUE

\* the filter of detect_sections_from_tracks: clusters with enough activities
SignificantCluster(c, cfg) == Cardinality(c.activity_ids) >= cfg.min_activities

\* cluster_overlaps, then the filter to clusters with enough activities
ClusterOverlaps ==
    /\ mode = "sections" /\ stage = "overlaps"
    /\ clusters' = SelectSeq(cluster_overlaps(overlaps, section_config),
                             LAMBDA c : SignificantCluster(c, section_config))
    /\ stage' = "clusters"
    /\ UNCHANGED <<tracks, section_config, overlaps, medoids, cluster_traces, sections>>
    /\ UNCHANGED <<routeVars, heatVars, fetchVars>>

\* process_cluster on every cluster, first statement: the medoids
SelectMedoids ==
    /\ mode = "sections" /\ stage = "clusters"
    /\ medoids' = [k \in 1..Len(clusters) |-> select_medoid(clusters[k])]
    /\ stage' = "medoids"
    /\ UNCHANGED <<tracks, section_config, overlaps, clusters, cluster_traces, sections>>
    /\ UNCHANGED <<routeVars, heatVars, fetchVars>>

\* process_cluster on every cluster, up to the activity traces
ExtractTraces ==
    /\ mode = "sections" /\ stage = "medoids"
    /\ cluster_traces' = [k \in 1..Len(clusters) |->
                     TracesFor(clusters[k], medoids[k], tracks, section_config)]
    /\ stage' = "traces"
    /\ UNCHANGED <<tracks, section_config, overlaps, clusters, medoids, sections>>
    /\ UNCHANGED <<routeVars, heatVars, fetchVars>>

\* process_cluster on every cluster, to its end: enumerate, then
\* filter_map; idx counts from 0
ConvertClusters ==
    /\ mode = "sections" /\ stage = "traces"
    /\ sections' = SelectSeq([k \in 1..Len(clusters) |->
                                 SectionFrom(k - 1, clusters[k], medoids[k], cluster_traces[k],
                                             tracks, section_config)],
                             LAMBDA s : s.made)
    /\ stage' = "converted"
    /\ UNCHANGED <<tracks, section_config, overlaps, clusters, medoids, cluster_traces>>
    /\ UNCHANGED <<routeVars, heatVars, fetchVars>>

FoldSplit ==
    /\ mode = "sections" /\ stage = "converted"
    /\ sections' = split_folding_sections(sections, section_config)
    /\ stage' = "folded"
    /\ UNCHANGED <<tracks, section_config, overlaps, clusters, medoids, cluster_traces>>
    /\ UNCHANGED <<routeVars, heatVars, fetchVars>>

NearbyMerge ==
    /\ mode = "sections" /\ stage = "folded"
    /\ sections' = merge_nearby_sections(sections, section_config)
    /\ stage' = "merged"
    /\ UNCHANGED <<tracks, section_config, overlaps, clusters, medoids, cluster_traces>>
    /\ UNCHANGED <<routeVars, heatVars, fetchVars>>

Dedup ==
    /\ mode = "sections" /\ stage = "merged"
    /\ sections' = remove_overlapping_sections(sections, section_config)
    /\ stage' = "deduped"
    /\ UNCHANGED <<tracks, section_config, overlaps, clusters, medoids, cluster_traces>>
    /\ UNCHANGED <<routeVars, heatVars, fetchVars>>

Renumbered(secs) == [k \in 1..Len(secs) |-> [secs[k] EXCEPT !.id = <<k - 1>>]]

\* the sections handed back: renumbered, then sorted by visit count; none
\* when a slice was out of range
SplitOutcome(split) ==
    IF split.panicked
    THEN /\ stage' = "panicked"
         /\ sections' = <<>>
    ELSE /\ stage' = "done"
         /\ sections' = ByVisits(Renumbered(split.sections))

\* split_high_variance_sections, the renumbering and the final sort
DensitySplit ==
    /\ mode = "sections" /\ stage = "deduped"
    /\ SplitOutcome(split_high_variance_sections(sections, tracks, section_config))
    /\ UNCHANGED <<tracks, section_config, overlaps, clusters, medoids, cluster_traces>>
    /\ UNCHANGED <<routeVars, heatVars, fetchVars>>

NextSections ==
    \/ TooFewTracks \/ FindOverlaps \/ ClusterOverlaps \/ SelectMedoids
    \/ ExtractTraces \/ ConvertClusters
    \/ FoldSplit \/ NearbyMerge \/ Dedup \/ DensitySplit

SpecSections == InitSections /\ [][NextSections]_vars

\* ---------------------------------------------------------------------------
\* Properties of the sections returned by detect_sections_from_tracks
\* ---------------------------------------------------------------------------

\* the detector has returned its sections
SectionsReturned == mode = "sections" /\ stage = "done"

\* the indices of the returned sections
Returned == IF SectionsReturned THEN 1..Len(sections) ELSE {}

\* C11: every section returned by detect_sections_from_tracks, those made by
\* the fold split and by the density split included, has at least
\* min_activities distinct member activity ids.
C11_EnoughMembers ==
    \A i \in Returned :
        Cardinality(Range(sections[i].activity_ids)) >= section_config.min_activities

\* a density split has made a section (only those carry no portions) next to
\* the section it was cut from
C11_Witness ==
    /\ SectionsReturned
    /\ \E i, j \in Returned :
        /\ sections[i].activity_portions = <<>>
        /\ sections[j].activity_portions /= <<>>

\* C12: every section returned by detect_sections_from_tracks has a polyline
\* whose length lies in [min_section_length, max_section_length].
C12_LengthInRange ==
    \A i \in Returned :
        /\ polyline_length(sections[i].polyline) >= section_config.min_section_length
        /\ polyline_length(sections[i].polyline) <= section_config.max_section_length

\* C13: every activity portion recorded in a returned section has
\* end_index > start_index and a length (distance_meters) greater than 0.
C13_PortionsNonEmpty ==
    \A i \in Returned :
        \A k \in 1..Len(sections[i].activity_portions) :
            /\ sections[i].activity_portions[k].end_index
                 > sections[i].activity_portions[k].start_index
            /\ sections[i].activity_portions[k].distance_meters > 0

\* C14: in every returned section point_density has exactly one entry for each
\* point of the section's polyline.
C14_DensityPerPoint ==
    \A i \in Returned :
        Len(sections[i].point_density) = Len(sections[i].polyline)

\* track point t (counted from 1) lies within the threshold of the polyline
NearPolyline(track, t, polyline, threshold) ==
    NearWithin(polyline, track[t], threshold)

\* track point t is near the polyline, or follows a near point of the track
\* by at most gap positions
NearOrInGap(track, t, polyline, threshold, gap) ==
    \E g \in 0..gap : t - g >= 1 /\ NearPolyline(track, t - g, polyline, threshold)

\* every point of the trace is a point of the track that is near the
\* polyline or inside a gap of at most gap points after a near one
TraceWithin(trace, track, polyline, threshold, gap) ==
    \A j \in 1..Len(trace) :
        \E t \in 1..Len(track) :
            /\ track[t] = trace[j]
            /\ NearOrInGap(track, t, polyline, threshold, gap)

\* the traces process_cluster extracted, each against its cluster's medoid
ClusterTracesWithin(threshold, gap) ==
    \A k \in 1..Len(cluster_traces) :
        \A a \in DOMAIN cluster_traces[k] :
            TraceWithin(cluster_traces[k][a], tracks[a], medoids[k].points,
                        threshold, gap)

\* a returned section carries the traces of a cluster unchanged
KeepsClusterTraces(section) ==
    \E k \in 1..Len(cluster_traces) : section.activity_traces = cluster_traces[k]

\* the traces of the returned sections that were extracted anew, each
\* against the section's own polyline
SplitTracesWithin(threshold, gap) ==
    \A i \in Returned :
        \/ KeepsClusterTraces(sections[i])
        \/ \A a \in DOMAIN sections[i].activity_traces :
              TraceWithin(sections[i].activity_traces[a], tracks[a],
                          sections[i].polyline, threshold, gap)

OverlapsFound == mode = "sections" /\ stage \notin {"idle", "start"}

\* the contiguous runs of points of track a that are near track b
NearRunsOf(a, b) ==
    MaximalRuns(NearIndices(tracks[a], tracks[b], section_config.proximity_threshold),
                Len(tracks[a]))

\* the geodesic length of the points of a run
GeodesicLength(a, r) == polyline_length(Slice(tracks[a], r[1], r[2]))

\* C22: find_full_track_overlap emits an overlap only for the best near-run of
\* track A: the emitted A-slice is a contiguous run of points of A that are
\* each within the proximity threshold of track B, the geodesic length of that
\* slice is at least min_section_length, and no other contiguous near-run of A
\* has a greater geodesic length.
C22_BestNearRun ==
    OverlapsFound =>
        \A k \in 1..Len(overlaps) :
            \E r \in NearRunsOf(overlaps[k].activity_a, overlaps[k].activity_b) :
                /\ overlaps[k].points_a = Slice(tracks[overlaps[k].activity_a], r[1], r[2])
                /\ GeodesicLength(overlaps[k].activity_a, r)
                      >= section_config.min_section_length
                /\ \A o \in NearRunsOf(overlaps[k].activity_a, overlaps[k].activity_b) :
                      GeodesicLength(overlaps[k].activity_a, o)
                         <= GeodesicLength(overlaps[k].activity_a, r)

\* ---------------------------------------------------------------------------
\* Properties of the clusters
\* ---------------------------------------------------------------------------

ClustersFormed == mode = "sections" /\ stage \notin {"idle", "start", "overlaps"}

\* the indices overlaps_match samples from the seed's A-slice
SampledFrom(seed) ==
    SampleIndices(Len(seed.points_a),
                  Len(seed.points_a) \div Min2(10, Len(seed.points_a)),
                  Min2(10, Len(seed.points_a)))

\* those of them that are within the threshold of the other's A-slice
SampledNear(seed, other, threshold) ==
    { i \in SampledFrom(seed) : NearWithin(other.points_a, seed.points_a[i + 1], threshold) }

\* C23: cluster_overlaps absorbs a not-yet-assigned overlap into a seed's
\* cluster only if its centroid is within cluster_tolerance of the seed's
\* centroid and at least 50% of the points sampled from the seed's A-slice are
\* within proximity_threshold of some point of the candidate's A-slice, for
\* seed slices of any length.
C23_AbsorbedOnlyIfSimilar ==
    ClustersFormed =>
        \A c \in 1..Len(clusters) :
            \A k \in 2..Len(clusters[c].overlaps) :
                /\ CentersWithin(clusters[c].overlaps[1].center,
                                 clusters[c].overlaps[k].center,
                                 section_config.cluster_tolerance)
                /\ 2 * Cardinality(SampledNear(clusters[c].overlaps[1],
                                               clusters[c].overlaps[k],
                                               section_config.proximity_threshold))
                      >= Cardinality(SampledFrom(clusters[c].overlaps[1]))

\* ---------------------------------------------------------------------------
\* Properties of the fold split
\* ---------------------------------------------------------------------------

\* the section is one side of a fold: its id ends in _out or _ret
IsFoldHalf(section) == Len(section.id) = 2 /\ section.id[2] \in {"out", "ret"}

\* the section is divided by split_folding_sections
IsDivided(section, cfg) ==
    /\ IsFolding(compute_fold_ratio(section.polyline, cfg.proximity_threshold))
    /\ detect_fold_point(section.polyline, cfg.proximity_threshold) # NoFold

\* the two sides of the fold of a divided section
SidesOf(section, cfg) ==
    [ out |-> Slice(section.polyline, 0,
                    detect_fold_point(section.polyline, cfg.proximity_threshold)),
      ret |-> Slice(section.polyline,
                    detect_fold_point(section.polyline, cfg.proximity_threshold),
                    Len(section.polyline)) ]

\* after the step, the side is a section if and only if it is long enough
SideIffLongEnough(section, tag, side, after, cfg) ==
    (\E j \in 1..Len(after) :
        after[j].id = Append(section.id, tag) /\ after[j].polyline = side)
    <=> polyline_length(side) >= cfg.min_section_length

HalvesIffLongEnough ==
    \A k \in 1..Len(sections) :
        IsDivided(sections[k], section_config) =>
            /\ SideIffLongEnough(sections[k], "out", SidesOf(sections[k], section_config).out,
                                 sections', section_config)
            /\ SideIffLongEnough(sections[k], "ret", SidesOf(sections[k], section_config).ret,
                                 sections', section_config)

\* a half that is handed back by the last stage carries activity traces
HalvesCarryTraces ==
    \A k \in 1..Len(sections) :
        IsFoldHalf(sections[k]) =>
            \A j \in 1..Len(sections') :
                sections'[j].polyline = sections[k].polyline
                   => sections'[j].activity_traces # EmptyTraces

\* C24: when the fold split divides a section, each half becomes a section if
\* and only if its length is at least min_section_length, and the activity
\* traces of each resulting half are recomputed against that half's polyline,
\* so that the sections finally returned carry traces for their member
\* activities.
C24_FoldHalvesHaveTraces ==
    [][ /\ (mode = "sections" /\ stage = "converted" /\ stage' = "folded")
             => HalvesIffLongEnough
        /\ (mode = "sections" /\ stage = "deduped" /\ stage' = "done")
             => HalvesCarryTraces ]_vars

----------------------------------------------------------------------------
(* The heatmap (heatmap.rs): generate_heatmap and query_heatmap_cell.       *)
(* Every point lies at longitude 0, where lng * lng_meters_per_deg = 0 and  *)
(* the column is 0 whatever the reference latitude.  A latitude is held as  *)
(* lat * lat_meters_per_deg, whole metres north of the equator, so          *)
(* (lat - ref_lat) * lat_meters_per_deg is a difference of two integers.    *)
(* Route names, timestamps, cell centres and the density are left out.      *)

CellSizeMeters == 100        \* HeatmapConfig::default().cell_size_meters

PosInfinity == 1000000       \* stands for f64::INFINITY
NegInfinity == 0 - PosInfinity

NoRoute == "none"            \* route_id: None
NoClip == [clipped |-> FALSE]

HeatmapGrid_new(cell_size_meters) ==
    [ cell_size_meters |-> cell_size_meters,
      ref_lat |-> 0,
      cells |-> << >>,
      min_lat |-> PosInfinity,
      max_lat |-> NegInfinity ]

\* floor(meters / cell_size), what `.floor() as i32` leaves
FloorCells(meters, cell_size) == meters \div cell_size

to_grid_coords(g, lat) == << FloorCells(lat - g.ref_lat, g.cell_size_meters), 0 >>

\* CellBuilder::default()
NewCell == [ visit_count |-> 0, activity_ids |-> <<>>, route_counts |-> << >> ]

\* cells.entry(coord).or_default()
CellAt(cells, coord) == IF coord \in DOMAIN cells THEN cells[coord] ELSE NewCell

\* a variant of the entry counter that starts over at every point
CountedOnce(count) == 1

\* cell.visit_count += 1
CountedAgain(count) == count + 1

\* activity_ids.push unless contained
WithActivity(ids, activity_id) ==
    IF \E i \in 1..Len(ids) : ids[i] = activity_id THEN ids
    ELSE Append(ids, activity_id)

\* *route_counts.entry(rid).or_insert(0) += 1, when there is a route id
WithRoute(route_counts, route_id) ==
    IF route_id = NoRoute THEN route_counts
    ELSE IF route_id \in DOMAIN route_counts
         THEN [route_counts EXCEPT ![route_id] = @ + 1]
         ELSE (route_id :> 1) @@ route_counts

VisitedCell(cell, activity_id, route_id) ==
    [ visit_count |-> CountedAgain(cell.visit_count),
      activity_ids |-> WithActivity(cell.activity_ids, activity_id),
      route_counts |-> WithRoute(cell.route_counts, route_id) ]

\* the reference latitude is set by the first point, 0.0 standing for unset
RefLatFor(g, lat) == IF g.ref_lat = 0 THEN lat ELSE g.ref_lat

PutCell(g, coord, activity_id, route_id) ==
    [g EXCEPT !.cells = (coord :> VisitedCell(CellAt(g.cells, coord), activity_id, route_id))
                          @@ g.cells]

\* HeatmapGrid::add_point
add_point(g, lat, activity_id, route_id) ==
    PutCell([g EXCEPT !.min_lat = Min2(g.min_lat, lat),
                      !.max_lat = Max2(g.max_lat, lat),
                      !.ref_lat = RefLatFor(g, lat)],
            to_grid_coords([g EXCEPT !.ref_lat = RefLatFor(g, lat)], lat),
            activity_id, route_id)

\* the clip test of generate_heatmap; the longitude of every point is 0
OutsideClip(clip, lat) ==
    /\ clip.clipped
    /\ \/ lat < clip.min_lat \/ lat > clip.max_lat
       \/ 0 < clip.min_lng \/ 0 > clip.max_lng

EmptyHeatmap(cell_size_meters) ==
    [ built |-> TRUE,
      cells |-> << >>,
      bounds |-> [min_lat |-> 0, max_lat |-> 0],
      cell_size_meters |-> cell_size_meters,
      total_routes |-> 0,
      total_activities |-> 0 ]

BuiltCell(coord, builder) ==
    [ row |-> coord[1],
      col |-> coord[2],
      visit_count |-> builder.visit_count,
      route_refs |-> [r \in DOMAIN builder.route_counts |->
                        [route_id |-> r, activity_count |-> builder.route_counts[r]]],
      unique_route_count |-> Cardinality(DOMAIN builder.route_counts),
      activity_ids |-> builder.activity_ids,
      is_common_path |-> Cardinality(DOMAIN builder.route_counts) >= 2 ]

\* HeatmapGrid::build
build(g) ==
    IF DOMAIN g.cells = {} THEN EmptyHeatmap(g.cell_size_meters)
    ELSE [ built |-> TRUE,
           cells |-> [c \in DOMAIN g.cells |-> BuiltCell(c, g.cells[c])],
           bounds |-> [min_lat |-> g.min_lat, max_lat |-> g.max_lat],
           cell_size_meters |-> g.cell_size_meters,
           total_routes |-> Cardinality(UNION { DOMAIN g.cells[c].route_counts :
                                                  c \in DOMAIN g.cells }),
           total_activities |-> Cardinality(UNION { Range(g.cells[c].activity_ids) :
                                                      c \in DOMAIN g.cells }) ]

NoCell == [found |-> FALSE]

\* the row query_heatmap_cell looks for: its reference latitude is
\* (min_lat + max_lat) / 2, so the offset is (2 lat - min_lat - max_lat) / 2
TargetRow(bounds, lat, cell_size_meters) ==
    FloorCells(2 * lat - (bounds.min_lat + bounds.max_lat), 2 * cell_size_meters)

FindCell(cells, coord) ==
    IF coord \in DOMAIN cells THEN [found |-> TRUE, cell |-> cells[coord]] ELSE NoCell

\* query_heatmap_cell, up to the cell it returns
query_heatmap_cell(hm, lat, cell_size_meters) ==
    IF DOMAIN hm.cells = {} THEN NoCell
    ELSE FindCell(hm.cells, << TargetRow(hm.bounds, lat, cell_size_meters), 0 >>)

NumHeatSigs == 2     \* at most this many signatures are handed to generate_heatmap

\* the point lists of the signatures, as metres north of the equator
HeatTracks == { <<70>>, <<210>>, <<70, 210>>, <<70, 80>>, <<0, 70>>, <<140, 150, 290>> }
HeatRoutes == { NoRoute, "r1", "r2" }
HeatClips ==
    { NoClip,
      [clipped |-> TRUE, min_lat |-> 50, max_lat |-> 250, min_lng |-> -1, max_lng |-> 1],
      [clipped |-> TRUE, min_lat |-> 100, max_lat |-> 300, min_lng |-> -1, max_lng |-> 1] }

\* signature i is of activity i; route_id is what activity_data holds for it
HeatSignatures(n) == [1..n -> [points : HeatTracks, route_id : HeatRoutes]]

NotBuilt == [built |-> FALSE]
NotQueried == [called |-> FALSE]

\* the position after (s, p) in the two nested loops
NextPos(sigs, s, p) == IF p < Len(sigs[s].points) THEN <<s, p + 1>> ELSE <<s + 1, 1>>

InitHeatmap ==
    /\ mode = "heatmap"
    /\ heat_sigs \in UNION { HeatSignatures(n) : n \in 0..NumHeatSigs }
    /\ heat_bounds \in HeatClips
    /\ grid = HeatmapGrid_new(CellSizeMeters)
    /\ heat_pos = <<1, 1>>
    /\ ingested = <<>>
    /\ heatmap = NotBuilt
    /\ cell_query = NotQueried
    /\ RoutesIdle /\ SectionsIdle /\ FetchIdle

\* one turn of the inner loop of generate_heatmap
VisitPoint ==
    /\ mode = "heatmap" /\ ~heatmap.built
    /\ heat_pos[1] <= Len(heat_sigs)
    /\ IF OutsideClip(heat_bounds, heat_sigs[heat_pos[1]].points[heat_pos[2]])
       THEN UNCHANGED <<grid, ingested>>
       ELSE /\ grid' = add_point(grid, heat_sigs[heat_pos[1]].points[heat_pos[2]],
                                 heat_pos[1], heat_sigs[heat_pos[1]].route_id)
            /\ ingested' = Append(ingested,
                   [ lat |-> heat_sigs[heat_pos[1]].points[heat_pos[2]],
                     activity_id |-> heat_pos[1],
                     route_id |-> heat_sigs[heat_pos[1]].route_id,
                     coord |-> to_grid_coords(grid', heat_sigs[heat_pos[1]].points[heat_pos[2]]) ])
    /\ heat_pos' = NextPos(heat_sigs, heat_pos[1], heat_pos[2])
    /\ UNCHANGED <<heat_sigs, heat_bounds, heatmap, cell_query>>
    /\ UNCHANGED <<routeVars, sectionVars, fetchVars>>

\* grid.build(), the return of generate_heatmap
BuildHeatmap ==
    /\ mode = "heatmap" /\ ~heatmap.built
    /\ heat_pos[1] > Len(heat_sigs)
    /\ heatmap' = build(grid)
    /\ UNCHANGED <<heat_sigs, heat_bounds, grid, heat_pos, ingested, cell_query>>
    /\ UNCHANGED <<routeVars, sectionVars, fetchVars>>

\* query_heatmap_cell at the location of an ingested point, with the
\* heatmap's cell size
QueryCell ==
    /\ mode = "heatmap" /\ heatmap.built
    /\ \E k \in 1..Len(ingested) :
          cell_query' = [ called |-> TRUE,
                          point |-> k,
                          result |-> query_heatmap_cell(heatmap, ingested[k].lat,
                                                        heatmap.cell_size_meters) ]
    /\ UNCHANGED <<heat_sigs, heat_bounds, grid, heat_pos, ingested, heatmap>>
    /\ UNCHANGED <<routeVars, sectionVars, fetchVars>>

NextHeatmap == VisitPoint \/ BuildHeatmap \/ QueryCell

SpecHeatmap == InitHeatmap /\ [][NextHeatmap]_vars

\* ---------------------------------------------------------------------------
\* Properties of the heatmap
\* ---------------------------------------------------------------------------

HeatmapBuilt == mode = "heatmap" /\ heatmap.built

\* the (signature, point) positions that lie inside the clip bounds
InsideClip ==
    { sp \in UNION { {s} \X (1..Len(heat_sigs[s].points)) : s \in 1..Len(heat_sigs) } :
        ~OutsideClip(heat_bounds, heat_sigs[sp[1]].points[sp[2]]) }

\* the sum of visit_count over the cells of the heatmap
TotalVisits(hm) == BagCardinality([c \in DOMAIN hm.cells |-> hm.cells[c].visit_count])

\* C16: for every heatmap built by generate_heatmap the sum of visit_count
\* over all returned cells equals the number of signature points that lie
\* inside the optional clip bounds.
C16_VisitsSumToPoints ==
    HeatmapBuilt => TotalVisits(heatmap) = Cardinality(InsideClip)

\* a heatmap is built in which a cell was visited more than once and the
\* clip bounds have left a point out
C16_Witness ==
    /\ HeatmapBuilt
    /\ \E c \in DOMAIN heatmap.cells : heatmap.cells[c].visit_count >= 2
    /\ \E s \in 1..Len(heat_sigs) :
          \E p \in 1..Len(heat_sigs[s].points) : <<s, p>> \notin InsideClip

\* C17: for every point that was ingested into a heatmap, querying that
\* point's latitude and longitude with the heatmap's cell size returns the
\* cell whose visit_count counted that point.
C17_QueryFindsCountingCell ==
    (mode = "heatmap" /\ cell_query.called) =>
        /\ cell_query.result.found
        /\ << cell_query.result.cell.row, cell_query.result.cell.col >>
             = ingested[cell_query.point].coord

\* the distinct activities of route r that have a point in cell c
ActivitiesIn(c, r) ==
    { ingested[k].activity_id :
        k \in { j \in 1..Len(ingested) : ingested[j].coord = c /\ ingested[j].route_id = r } }

\* C18: in every heatmap cell each route reference's activity_count equals
\* the number of distinct activities of that route that have at least one
\* point in the cell.
C18_ActivityCountDistinct ==
    HeatmapBuilt =>
        \A c \in DOMAIN heatmap.cells :
            \A r \in DOMAIN heatmap.cells[c].route_refs :
                heatmap.cells[c].route_refs[r].activity_count
                    = Cardinality(ActivitiesIn(c, r))

\* C25: during one generate_heatmap run the reference latitude of the grid is
\* the latitude of the first ingested point and stays fixed: every ingested
\* point, whatever the first point's latitude is (0.0 included), is mapped to
\* its cell with that same reference latitude.
C25_ReferenceLatitudeFixed ==
    (mode = "heatmap" /\ ingested # <<>>) =>
        /\ grid.ref_lat = ingested[1].lat
        /\ \A k \in 1..Len(ingested) :
              ingested[k].coord
                 = << FloorCells(ingested[k].lat - ingested[1].lat, grid.cell_size_meters), 0 >>

----------------------------------------------------------------------------
(* The activity fetcher (http.rs): fetch_activity_maps, fetch_single_map    *)
(* and the DispatchRateLimiter.  Time is counted in milliseconds.  Every    *)
(* future is at one of the places                                           *)
(*   "queued"   not yet polled by buffer_unordered                          *)
(*   "slot"     asleep in wait_for_dispatch_slot                            *)
(*   "sending"  its request is in flight                                    *)
(*   "backoff"  asleep before a retry                                       *)
(*   "done"     its result is returned                                      *)
(* and those asleep or in flight carry the time `at` of their next event;   *)
(* the events happen in the order of their times, a timer firing exactly    *)
(* when it is due.  buffer_unordered fills its buffer before it polls what  *)
(* is in it, so the futures are first polled before any time has passed.    *)

DispatchIntervalMs == 80
MaxConcurrency == 50
MaxRetries == 3
NoSleepMs == 5               \* a wait of at most this long is not slept
Backoff429Ms == 500
BackoffErrorMs == 200
BackoffCap == 3

NumIds == 2                  \* at most this many activity ids are fetched

\* how long a request for each activity takes to be answered, or to fail
LatencyMs == <<100, 20, 60>>

\* what a request ends with: a 2xx response with a good body, a 429, a
\* transport error, or a response that makes fetch_single_map return a
\* failure at once (another status, a body that fails to download or parse)
Outcomes == {"ok", "429", "failed", "error"}

RECURSIVE Pow2(_)
Pow2(n) == IF n = 0 THEN 1 ELSE 2 * Pow2(n - 1)

\* record_429: the backoff for the count-th consecutive 429
Backoff429(count) == Backoff429Ms * Pow2(Min2(count, BackoffCap))

\* the backoff after the retries-th transport error
BackoffError(retries) == BackoffErrorMs * Pow2(retries)

\* a variant of the retry budget with one more retry
RetriesExhaustedLater(retries) == retries > MaxRetries + 1

\* retries > MAX_RETRIES
RetriesExhausted(retries) == retries > MaxRetries

\* a variant of the slot computation that forgets the slot already reserved
DispatchAtNow(next, t) == t

\* wait_for_dispatch_slot: if *next > now { *next } else { now }
DispatchAt(next, t) == IF next > t THEN next ELSE t

NewTask == [pc |-> "queued", retries |-> 0, at |-> 0, seen |-> <<>>]

Timed(t) == t.pc \in {"slot", "sending", "backoff"}

InFlight == { j \in 1..Len(tasks) : tasks[j].pc \notin {"queued", "done"} }

\* the future whose event is next: none that is asleep or in flight has an
\* earlier one
IsDue(i) ==
    /\ Timed(tasks[i])
    /\ \/ \A j \in 1..Len(tasks) : tasks[j].pc # "queued"
       \/ Cardinality(InFlight) >= MaxConcurrency
    /\ \A j \in 1..Len(tasks) : Timed(tasks[j]) => tasks[i].at <= tasks[j].at

Failure(activity_id, error) ==
    [activity_id |-> activity_id, success |-> FALSE, error |-> error]
Success(activity_id) ==
    [activity_id |-> activity_id, success |-> TRUE, error |-> "none"]

\* client.get(url).send(): the request of future i starts at time t
Sent(i, t) ==
    /\ tasks' = [tasks EXCEPT ![i].pc = "sending", ![i].at = t + LatencyMs[i]]
    /\ starts' = Append(starts, [activity_id |-> i, at |-> t])

Returned_(i, result) ==
    /\ tasks' = [tasks EXCEPT ![i].pc = "done", ![i].seen = Append(@, result.error)]
    /\ results' = Append(results, result)

InitFetch ==
    /\ mode = "fetch"
    /\ now = 0 /\ next_dispatch = 0 /\ consecutive_429s = 0 /\ dispatched_count = 0
    /\ LimiterIdle
    /\ tasks \in { [i \in 1..n |-> NewTask] : n \in 1..NumIds }
    /\ starts = <<>>
    /\ results = <<>>
    /\ RoutesIdle /\ SectionsIdle /\ HeatIdle

\* buffer_unordered polls the next future, which runs wait_for_dispatch_slot
\* up to its sleep; with a wait of at most 5 ms it goes on to send at once
Dispatch ==
  \E i \in 1..Len(tasks) :
    /\ mode = "fetch"
    /\ tasks[i].pc = "queued"
    /\ \A j \in 1..(i - 1) : tasks[j].pc # "queued"
    /\ Cardinality(InFlight) < MaxConcurrency
    /\ next_dispatch' = DispatchAt(next_dispatch, now) + DispatchIntervalMs
    /\ dispatched_count' = dispatched_count + 1
    /\ IF DispatchAt(next_dispatch, now) - now > NoSleepMs
       THEN /\ tasks' = [tasks EXCEPT ![i].pc = "slot",
                                      ![i].at = DispatchAt(next_dispatch, now)]
            /\ UNCHANGED starts
       ELSE Sent(i, now)
    /\ UNCHANGED <<now, consecutive_429s, results, limiterVars>>
    /\ UNCHANGED <<routeVars, sectionVars, heatVars>>

\* the sleep of wait_for_dispatch_slot is over: fetch_single_map sends its
\* first request
SlotReached ==
  \E i \in 1..Len(tasks) :
    /\ mode = "fetch"
    /\ tasks[i].pc = "slot" /\ IsDue(i)
    /\ now' = tasks[i].at
    /\ Sent(i, tasks[i].at)
    /\ UNCHANGED <<next_dispatch, consecutive_429s, dispatched_count, results, limiterVars>>
    /\ UNCHANGED <<routeVars, sectionVars, heatVars>>

\* the 429 arm of fetch_single_map
Got429(i) ==
    IF RetriesExhausted(tasks[i].retries + 1)
    THEN /\ Returned_(i, Failure(i, "Max retries exceeded (429)"))
         /\ UNCHANGED consecutive_429s
    ELSE /\ consecutive_429s' = consecutive_429s + 1
         /\ tasks' = [tasks EXCEPT ![i].pc = "backoff",
                                   ![i].retries = @ + 1,
                                   ![i].seen = Append(@, "429"),
                                   ![i].at = tasks[i].at + Backoff429(consecutive_429s + 1)]
         /\ UNCHANGED results

\* the Err arm of fetch_single_map
GotError(i) ==
    /\ IF RetriesExhausted(tasks[i].retries + 1)
       THEN Returned_(i, Failure(i, "Request error"))
       ELSE /\ tasks' = [tasks EXCEPT ![i].pc = "backoff",
                                      ![i].retries = @ + 1,
                                      ![i].seen = Append(@, "error"),
                                      ![i].at = tasks[i].at + BackoffError(tasks[i].retries + 1)]
            /\ UNCHANGED results
    /\ UNCHANGED consecutive_429s

\* any other response: record_success, then the result
GotResponse(i, outcome) ==
    /\ consecutive_429s' = 0
    /\ Returned_(i, IF outcome = "ok" THEN Success(i)
                    ELSE Failure(i, "HTTP status, body download or JSON parse error"))

\* the request of future i ends
Response ==
  \E i \in 1..Len(tasks) :
    /\ mode = "fetch"
    /\ tasks[i].pc = "sending" /\ IsDue(i)
    /\ now' = tasks[i].at
    /\ \E outcome \in Outcomes :
          CASE outcome = "429" -> Got429(i)
            [] outcome = "error" -> GotError(i)
            [] OTHER -> GotResponse(i, outcome)
    /\ UNCHANGED <<next_dispatch, dispatched_count, starts, limiterVars>>
    /\ UNCHANGED <<routeVars, sectionVars, heatVars>>

\* the sleep before a retry is over: the loop of fetch_single_map sends again,
\* without a call of wait_for_dispatch_slot
Retry ==
  \E i \in 1..Len(tasks) :
    /\ mode = "fetch"
    /\ tasks[i].pc = "backoff" /\ IsDue(i)
    /\ now' = tasks[i].at
    /\ Sent(i, tasks[i].at)
    /\ UNCHANGED <<next_dispatch, consecutive_429s, dispatched_count, results, limiterVars>>
    /\ UNCHANGED <<routeVars, sectionVars, heatVars>>

NextFetch == Dispatch \/ SlotReached \/ Response \/ Retry

SpecFetch == InitFetch /\ [][NextFetch]_vars

\* the runtime polls ready futures and fires due timers, and every request
\* completes (the client has a 30 s timeout)
SpecFetchFair == SpecFetch /\ WF_vars(NextFetch)

\* ---------------------------------------------------------------------------
\* Properties of the fetcher
\* ---------------------------------------------------------------------------

\* the requests sent for activity i so far
RequestsOf(i) == { k \in 1..Len(starts) : starts[k].activity_id = i }

\* the results returned for activity i so far
ResultsOf(i) == { k \in 1..Len(results) : results[k].activity_id = i }

AllFetched ==
    /\ mode = "fetch"
    /\ \A i \in 1..Len(tasks) : tasks[i].pc = "done" /\ Cardinality(ResultsOf(i)) = 1

WithinBudget ==
    mode = "fetch" =>
        \A i \in 1..Len(tasks) :
            /\ Cardinality(RequestsOf(i)) <= MaxRetries + 1
            /\ Cardinality(ResultsOf(i)) <= 1
            /\ \A k \in ResultsOf(i) : results[k].success \/ results[k].error # "none"

\* C19: fetching one activity always terminates with exactly one result for
\* that id: fetch_single_map sends at most MAX_RETRIES + 1 = 4 requests, 429
\* responses and transport errors sharing one retry counter, and then returns
\* a success result or a failure result carrying an error string.
C19_FetchTerminates == [](WithinBudget) /\ <>[](AllFetched)

\* a fetch has ended in a failure after four requests that met both 429
\* responses and transport errors
C19_Witness ==
    /\ AllFetched
    /\ \E i \in 1..Len(tasks) :
          /\ Cardinality(RequestsOf(i)) = MaxRetries + 1
          /\ \E k \in ResultsOf(i) : ~results[k].success
          /\ \E a, b \in 1..Len(tasks[i].seen) :
                tasks[i].seen[a] = "429" /\ tasks[i].seen[b] = "error"

\* C20: any two request starts issued by fetch_activity_maps, first attempts
\* or retries, are at least DISPATCH_INTERVAL_MS apart, up to the 5 ms
\* no-sleep tolerance.
C20_StartsSpacedOut ==
    mode = "fetch" =>
        \A a, b \in 1..Len(starts) :
            a # b => Abs(starts[a].at - starts[b].at) >= DispatchIntervalMs - NoSleepMs

----------------------------------------------------------------------------
(* DispatchRateLimiter::wait_for_dispatch_slot called by concurrent tasks   *)
(* (http.rs).  Every call is at one of the places                           *)
(*   "idle"      not yet called                                             *)
(*   "locking"   awaiting next_dispatch.lock()                              *)
(*   "locked"    holding the mutex, before Instant::now()                   *)
(*   "sleeping"  in tokio::time::sleep(wait_duration), the mutex released   *)
(*   "returned"  the call has returned its dispatch number                  *)
(* The clock advances between any two steps.  The block that holds the      *)
(* mutex has no await in it, and next_dispatch and dispatched_count are     *)
(* touched nowhere else, so the block is one step once the clock is read.   *)

NumCallers == 3              \* at most this many concurrent calls
MaxNowMs == 160              \* the clock stops advancing here
TickSteps == {37, 40}        \* the amounts by which the clock advances

NewCaller == [pc |-> "idle", num |-> 0, slot |-> 0, wait |-> 0, returned_at |-> 0]

\* DispatchRateLimiter::new at time 0, and the calls to come
InitLimiter ==
    /\ mode = "limiter"
    /\ now = 0 /\ next_dispatch = 0 /\ dispatched_count = 0 /\ consecutive_429s = 0
    /\ lock = 0
    /\ callers \in { [c \in 1..n |-> NewCaller] : n \in 1..NumCallers }
    /\ tasks = <<>> /\ starts = <<>> /\ results = <<>>
    /\ RoutesIdle /\ SectionsIdle /\ HeatIdle

\* a task calls wait_for_dispatch_slot and awaits the mutex
CallLimiter ==
  \E c \in 1..Len(callers) :
    /\ mode = "limiter"
    /\ callers[c].pc = "idle"
    /\ callers' = [callers EXCEPT ![c].pc = "locking"]
    /\ UNCHANGED <<now, next_dispatch, consecutive_429s, dispatched_count, lock,
                   tasks, starts, results>>
    /\ UNCHANGED <<routeVars, sectionVars, heatVars>>

\* the mutex is free and is granted to one of the tasks awaiting it
AcquireLock ==
  \E c \in 1..Len(callers) :
    /\ mode = "limiter"
    /\ callers[c].pc = "locking" /\ lock = 0
    /\ lock' = c
    /\ callers' = [callers EXCEPT ![c].pc = "locked"]
    /\ UNCHANGED <<now, next_dispatch, consecutive_429s, dispatched_count,
                   tasks, starts, results>>
    /\ UNCHANGED <<routeVars, sectionVars, heatVars>>

\* the caller after the block: asleep for wait, or returned at once
AfterReserve(caller, num, dispatch_at, t) ==
    IF dispatch_at - t > NoSleepMs
    THEN [caller EXCEPT !.pc = "sleeping", !.num = num, !.slot = dispatch_at,
                        !.wait = dispatch_at - t]
    ELSE [caller EXCEPT !.pc = "returned", !.num = num, !.slot = dispatch_at,
                        !.wait = dispatch_at - t, !.returned_at = t]

\* the block under the mutex: read the clock, take the slot, reserve the next
\* one, count the dispatch; the guard is dropped at the end of the block
ReserveSlot ==
  \E c \in 1..Len(callers) :
    /\ mode = "limiter"
    /\ callers[c].pc = "locked" /\ lock = c
    /\ next_dispatch' = DispatchAt(next_dispatch, now) + DispatchIntervalMs
    /\ dispatched_count' = dispatched_count + 1
    /\ callers' = [callers EXCEPT
                     ![c] = AfterReserve(@, dispatched_count + 1,
                                         DispatchAt(next_dispatch, now), now)]
    /\ lock' = 0
    /\ UNCHANGED <<now, consecutive_429s, tasks, starts, results>>
    /\ UNCHANGED <<routeVars, sectionVars, heatVars>>

\* the sleep is over, not before its deadline: the call returns
WakeCaller ==
  \E c \in 1..Len(callers) :
    /\ mode = "limiter"
    /\ callers[c].pc = "sleeping" /\ now >= callers[c].slot
    /\ callers' = [callers EXCEPT ![c].pc = "returned", ![c].returned_at = now]
    /\ UNCHANGED <<now, next_dispatch, consecutive_429s, dispatched_count, lock,
                   tasks, starts, results>>
    /\ UNCHANGED <<routeVars, sectionVars, heatVars>>

\* time passes
Tick ==
  \E d \in TickSteps :
    /\ mode = "limiter"
    /\ now + d <= MaxNowMs
    /\ now' = now + d
    /\ UNCHANGED <<next_dispatch, consecutive_429s, dispatched_count, lock, callers,
                   tasks, starts, results>>
    /\ UNCHANGED <<routeVars, sectionVars, heatVars>>

NextLimiter == CallLimiter \/ AcquireLock \/ ReserveSlot \/ WakeCaller \/ Tick

SpecLimiter == InitLimiter /\ [][NextLimiter]_vars

\* ---------------------------------------------------------------------------
\* Properties of the dispatch rate limiter
\* ---------------------------------------------------------------------------

\* the calls that have taken their slot
Reserved == { c \in 1..Len(callers) : callers[c].pc \in {"sleeping", "returned"} }

HasReturned == { c \in Reserved : callers[c].pc = "returned" }

\* unique dispatch numbers and slots, slots DISPATCH_INTERVAL_MS apart,
\* numbers in slot order, and the first caller does not wait
SlotsReserved ==
    /\ \A c \in Reserved : callers[c].num \in 1..dispatched_count
    /\ \A c, d \in Reserved :
          c # d =>
             /\ callers[c].num # callers[d].num
             /\ Abs(callers[c].slot - callers[d].slot) >= DispatchIntervalMs
             /\ (callers[c].num < callers[d].num) = (callers[c].slot < callers[d].slot)
    /\ \A c \in Reserved : callers[c].num = 1 => callers[c].wait = 0

\* C21 as stated: under any interleaving of concurrent callers of
\* wait_for_dispatch_slot each caller gets a unique dispatch number and a
\* unique reserved slot, the slots of two callers are at least
\* DISPATCH_INTERVAL_MS apart, dispatch numbers increase in slot order, the
\* first caller does not wait and every caller returns no earlier than its
\* slot.
C21_UniqueSlots_AsStated ==
    mode = "limiter" =>
        /\ SlotsReserved
        /\ \A c \in HasReturned : callers[c].returned_at >= callers[c].slot

\* C21: under any interleaving of concurrent callers of
\* wait_for_dispatch_slot each caller gets a unique dispatch number and a
\* unique reserved slot, the slots of two callers are at least
\* DISPATCH_INTERVAL_MS apart, dispatch numbers increase in slot order, the
\* first caller does not wait, and a caller returns no earlier than 5 ms
\* before its slot: it sleeps until the slot only when the slot is more than
\* 5 ms ahead.
C21_UniqueSlots ==
    mode = "limiter" =>
        /\ SlotsReserved
        /\ \A c \in HasReturned :
              /\ callers[c].returned_at >= callers[c].slot - NoSleepMs
              /\ callers[c].wait > NoSleepMs => callers[c].returned_at >= callers[c].slot

\* three calls have returned: one without a wait, one that slept until its
\* slot, and one that found its slot less than 5 ms ahead and did not sleep
C21_Witness ==
    /\ mode = "limiter"
    /\ \E c, d, e \in HasReturned :
          /\ callers[c].num = 1 /\ callers[c].returned_at = callers[c].slot
          /\ callers[d].wait > NoSleepMs /\ callers[d].returned_at >= callers[d].slot
          /\ callers[e].wait > 0 /\ callers[e].returned_at < callers[e].slot

----------------------------------------------------------------------------
(* group_incremental on new signatures of any activity ids (lib.rs): the    *)
(* existing signatures are grouped by group_signatures, then                *)
(* group_incremental is called with those groups, the existing signatures   *)
(* and new_signatures, whose ids may be fresh or ids of existing            *)
(* signatures (an activity that is handed in again).                        *)

NumExisting == 2     \* at most this many existing signatures
NumNew == 1          \* at most this many new signatures

RegroupTracks == { <<0, 1000>>, <<150, 1000>>, <<300, 1000>>, <<5000, 5550>> }

\* the ids a new signature can have: those of the existing ones and a fresh one
NewIds == 1..(NumExisting + 1)

NewSignatureLists ==
    UNION { [1..n -> { MakeSignature(id, t) : id \in NewIds, t \in RegroupTracks }] :
              n \in 0..NumNew }

\* existing_signatures, in slice order
ExistingSignatures ==
    [k \in 1..Cardinality(existing) |-> signatures[SortedSeq(existing)[k]]]

\* all_signatures: existing_signatures chained with new_signatures
AllSignatures == ExistingSignatures \o new_signatures

IdsOf(sigs) == [k \in 1..Len(sigs) |-> sigs[k].activity_id]

\* sig_map: collected into a HashMap, the last signature of an id stays
SigMap(all, id) ==
    all[CHOOSE k \in 1..Len(all) :
            /\ all[k].activity_id = id
            /\ \A j \in (k + 1)..Len(all) : all[j].activity_id # id]

\* locate_in_envelope_intersecting and the filter chain of group_incremental
\* for the R-tree entry of the signature b
RegroupAccepts(new_sig, b, all, new_ids, cfg) ==
    /\ b.bounds.min_lat <= new_sig.bounds.max_lat + Tolerance
    /\ b.bounds.max_lat >= new_sig.bounds.min_lat - Tolerance
    /\ b.activity_id # new_sig.activity_id
    /\ distance_ratio_ok(new_sig.total_distance, b.total_distance)
    /\ (b.activity_id \in new_ids => ~(new_sig.activity_id >= b.activity_id))
    /\ GroupsTogether(new_sig, SigMap(all, b.activity_id), cfg)

\* the merges one new signature yields; a merge met twice is kept once, the
\* second union of the same two ids finding them under one root
MergesOf(new_sig, all, new_ids, cfg) ==
    { <<new_sig.activity_id, all[k].activity_id>> :
        k \in { j \in 1..Len(all) : RegroupAccepts(new_sig, all[j], all, new_ids, cfg) } }

\* the orders the parallel collect can leave the merges in
RECURSIVE RegroupOrders(_, _, _, _)
RegroupOrders(news, all, new_ids, cfg) ==
    IF news = <<>> THEN {<<>>}
    ELSE { h \o t : h \in Perms(MergesOf(news[1], all, new_ids, cfg)),
                    t \in RegroupOrders(Tail(news), all, new_ids, cfg) }

InitRegroup ==
    /\ mode = "regroup"
    /\ config = DefaultConfig
    /\ sig1 = NoSignature /\ sig2 = NoSignature
    /\ res12 = Unset /\ res21 = Unset
    /\ \E n \in 1..NumExisting :
          /\ existing = 1..n
          /\ signatures \in {[i \in 1..n |-> MakeSignature(i, t[i])] :
                               t \in [1..n -> RegroupTracks]}
    /\ new_signatures \in NewSignatureLists
    /\ run = "prior" /\ pc = "begin"
    /\ work = <<>> /\ cur = 0 /\ parent = <<>> /\ matches = <<>>
    /\ groups = NoGroups
    /\ SectionsIdle /\ HeatIdle /\ FetchIdle

\* group_incremental up to its union loop; existing_groups is not empty
\* here (the call without existing groups is group_signatures_parallel)
IncRegroup ==
    /\ mode = "regroup" /\ run = "inc" /\ pc = "begin"
    /\ groups.prior # {}
    /\ IF new_signatures = <<>>
       THEN Return(groups.prior)
       ELSE /\ work' = IdsOf(AllSignatures)
            /\ parent' = SeedParent(groups.prior, Range(IdsOf(new_signatures)))
            /\ matches' \in RegroupOrders(new_signatures, AllSignatures,
                                          Range(IdsOf(new_signatures)), config)
            /\ pc' = "apply"
            /\ UNCHANGED <<run, cur, groups>>
    /\ UNCHANGED <<mode, config, compareIdle, signatures, existing, new_signatures,
                   sectionVars, heatVars, fetchVars>>

NextRegroup == SeqBegin \/ SeqIterate \/ SeqBuild \/ IncRegroup \/ ApplyMatch \/ ParBuild

SpecRegroup == InitRegroup /\ [][NextRegroup]_vars

\* ---------------------------------------------------------------------------
\* Properties of regrouping
\* ---------------------------------------------------------------------------

Regrouped == mode = "regroup" /\ run = "done"

\* the ids of one group of gs are in one group of hs
KeptTogether(gs, hs) ==
    \A g \in gs :
        \A a, b \in Range(g.activity_ids) :
            \E h \in hs : {a, b} \subseteq Range(h.activity_ids)

\* no new signature has the id of a member of an existing group
NewIdsFresh ==
    \A k \in 1..Len(new_signatures) :
        \A g \in groups.prior : new_signatures[k].activity_id \notin Range(g.activity_ids)

\* C26 as stated: group_incremental never separates activities that were
\* already grouped together: given pairwise-disjoint existing groups whose
\* members all appear in existing_signatures, any two ids that belong to the
\* same existing group belong to the same returned group, for every set of
\* new signatures.
C26_GroupedStayTogether_AsStated ==
    Regrouped => KeptTogether(groups.prior, groups.inc)

\* C26: group_incremental never separates activities that were already
\* grouped together: given pairwise-disjoint existing groups whose members
\* all appear in existing_signatures, any two ids that belong to the same
\* existing group belong to the same returned group, for every set of new
\* signatures none of which has the id of a member of an existing group.
C26_GroupedStayTogether ==
    (Regrouped /\ NewIdsFresh) => KeptTogether(groups.prior, groups.inc)

\* two existing signatures were grouped together and a new signature with a
\* fresh id has joined their group
C26_Witness ==
    /\ Regrouped /\ NewIdsFresh
    /\ \E g \in groups.prior : Len(g.activity_ids) = 2
    /\ \E h \in groups.inc : Cardinality(Range(h.activity_ids)) = 3

\* ---------------------------------------------------------------------------
\* Properties of the union-find map
\* ---------------------------------------------------------------------------

\* parent.get(id), an id without an entry standing for itself
ParentOf(par, id) == IF id \in DOMAIN par THEN par[id] ELSE id

\* the id reached from id after n steps along the parent pointers
RECURSIVE Ancestor(_, _, _)
Ancestor(par, id, n) == IF n = 0 THEN id ELSE Ancestor(par, ParentOf(par, id), n - 1)

\* where the pointers lead from id once every entry has been followed
RootOf(par, id) == Ancestor(par, id, Cardinality(DOMAIN par))

\* the root of every id of the map
RootsOf(par) == [id \in DOMAIN par |-> RootOf(par, id)]

\* no cycle but a root pointing at itself: every walk ends at such a root
IsForest(par, roots) ==
    \A id \in DOMAIN par : ParentOf(par, roots[id]) = roots[id]

\* find(id) returned the root of id and left a forest in which every id has
\* the root it had, so the same ids share a root
FindKeepsRoots(par, roots, id, found) ==
    /\ found.root = roots[id]
    /\ DOMAIN found.parent = DOMAIN par
    /\ RootsOf(found.parent) = roots
    /\ IsForest(found.parent, roots)

ForestKeptByFind(par, roots) ==
    /\ IsForest(par, roots)
    /\ \A id \in DOMAIN par : FindKeepsRoots(par, roots, id, find(par, id))

\* C27: the union-find parent map is always a forest: starting from the
\* initial map of group_signatures (every id its own parent) or of
\* group_incremental (existing members point to their group's first member,
\* new ids to themselves), after any sequence of union and find calls there
\* is no cycle other than a root pointing to itself, so every find call
\* terminates, and path compression in find never changes which ids share a
\* root.
C27_ParentIsForest ==
    mode \in GroupModes => ForestKeptByFind(parent, RootsOf(parent))

\* group_incremental has hung the first member of an existing group under a
\* new id: a member of that group is two steps from its root
C27_Witness ==
    /\ mode \in GroupModes /\ run = "inc"
    /\ \E id \in DOMAIN parent :
          /\ id \in existing
          /\ parent[id] # id
          /\ ParentOf(parent, parent[id]) # parent[id]
          /\ ParentOf(parent, parent[id]) \notin existing

\* C28: the density split never indexes a section's polyline out of range:
\* for every section that can reach split_high_variance_sections, including
\* the halves produced by the fold split, every candidate range
\* [start_idx, end_idx] that find_split_candidates derives from point_density
\* is a valid index range of the section's polyline, so neither
\* find_split_candidates nor split_section_by_density panics.
C28_SplitStaysInRange == stage # "panicked"

\* the three dedup tests all fail on section i and a later section j
WithinDedupThresholds(section_i, section_j, cfg) ==
    /\ ~RatAbove(compute_containment(section_j.polyline, section_i.polyline,
                                     cfg.proximity_threshold), 6, 10)
    /\ ~RatAbove(compute_containment(section_i.polyline, section_j.polyline,
                                     cfg.proximity_threshold), 8, 10)
    /\ ~(/\ RatAbove(compute_containment(section_j.polyline, section_i.polyline,
                                         cfg.proximity_threshold), 4, 10)
         /\ RatAbove(compute_containment(section_i.polyline, section_j.polyline,
                                         cfg.proximity_threshold), 4, 10))

\* the sections are in ascending order of length
AscendingLength(secs) ==
    \A i, j \in 1..Len(secs) : i < j => secs[i].distance_meters <= secs[j].distance_meters

\* C29: after remove_overlapping_sections, no two retained sections overlap
\* beyond the dedup thresholds: for every retained pair (i, j) with i before j
\* in the ascending-length order, fewer than or exactly 60% of j's points are
\* within proximity_threshold of i, at most 80% of i's points are within
\* proximity_threshold of j, and the two containment fractions are not both
\* above 40%.
C29_RetainedWithinThresholds ==
    (mode = "sections" /\ stage = "deduped") =>
        /\ AscendingLength(sections)
        /\ \A i, j \in 1..Len(sections) :
              i < j => WithinDedupThresholds(sections[i], sections[j], section_config)

\* two sections went through the tests and both are retained
C29_Witness ==
    /\ mode = "sections" /\ stage = "deduped"
    /\ Len(sections) >= 2

\* ---------------------------------------------------------------------------
\* Properties of the returned groups
\* ---------------------------------------------------------------------------

GroupIdIsMember(gs) == \A g \in gs : g.group_id \in Range(g.activity_ids)

\* C30: in every group returned by group_signatures, group_signatures_parallel
\* and group_incremental, the group_id is the id of one of the group's own
\* members (it occurs in the group's activity_ids).
C30_GroupIdIsMember ==
    mode \in GroupModes =>
        /\ GroupIdIsMember(groups.prior)
        /\ GroupIdIsMember(groups.seq)
        /\ GroupIdIsMember(groups.par)
        /\ GroupIdIsMember(groups.inc)

\* all three groupers have returned; group_incremental returned a group that
\* is named after a new signature and lists an existing one first
C30_Witness ==
    /\ mode = "group" /\ Finished("inc")
    /\ groups.seq # {} /\ groups.par # {}
    /\ \E g \in groups.inc :
          /\ Len(g.activity_ids) >= 2
          /\ g.group_id \notin existing
          /\ g.activity_ids[1] \in existing

====
